---- MODULE Spec2Model ----
(***************************************************************************)
(* memfs: an in-memory tree of Directory and File nodes addressed by path. *)
(* The model follows src/src/internal/directory.rs (Directory::get and its *)
(* helpers), src/src/directory/get_ext.rs (typed wrappers),                *)
(* src/src/internal/node/root.rs (is_root) and src/src/file_system.rs.     *)
(* Strong handles (Arc) keep nodes alive, parent edges are Weak.           *)
(***************************************************************************)
EXTENDS Integers, Sequences, FiniteSets, TLC

\* ----------------------------------------------------------------- bounds
MaxNodes == 3
MaxSegs == 2
MaxWrites == 2
ValueMod == 3
Names == {"a", "b"}
Tasks == {1, 2}

NodeIds == 1..MaxNodes
RootId == 1
NoNode == 0
NoTask == 0
DefaultValue == 0

VARIABLES nodes, fs, tasks, node_lock, children_lock, value_lock, queries, writes

\* The state of the payload and count operations: the lock of each payload
\* cell, each caller's position in read / write / count, and the writes each
\* cell has taken, in the order they were stored.
query_vars == <<value_lock, queries, writes>>

vars == <<nodes, fs, tasks, node_lock, children_lock, value_lock, queries, writes>>

\* ------------------------------------------------------------- data model
NoParent == [name |-> "", ref |-> NoNode]
EmptyChildren == [n \in Names |-> NoNode]
FreeNode == [kind |-> "Free", parent |-> NoParent, children |-> EmptyChildren, value |-> DefaultValue]
DeadNode == [kind |-> "Dead", parent |-> NoParent, children |-> EmptyChildren, value |-> DefaultValue]

\* Value::from_option(None): the payload type's default.
from_option == DefaultValue

\* Variant: the parent edge handed to create is not stored.
DirectoryCreateOrphan(parent) ==
    [kind |-> "Directory", parent |-> NoParent, children |-> EmptyChildren, value |-> from_option]

\* Directory::create(None, parent)
DirectoryCreate(parent) ==
    [kind |-> "Directory", parent |-> parent, children |-> EmptyChildren, value |-> from_option]

\* File::create(None, parent)
FileCreate(parent) ==
    [kind |-> "File", parent |-> parent, children |-> EmptyChildren, value |-> from_option]

\* Variant: the root is built with its own weak reference as its parent edge.
create_root_self == DirectoryCreate([name |-> "", ref |-> RootId])

\* Directory::create_root()
create_root == DirectoryCreate(NoParent)

\* ------------------------------------------------------------------ paths
Segs == Names \cup {".", ".."}

RECURSIVE SeqsUpTo(_, _)
SeqsUpTo(S, n) ==
    IF n = 0 THEN {<<>>}
    ELSE LET shorter == SeqsUpTo(S, n - 1)
         IN  shorter \cup {Append(s, x) : s \in {q \in shorter : Len(q) = n - 1}, x \in S}

\* A path string: an optional platform prefix, an optional leading separator and
\* the segments between separators.
RawPaths ==
    [prefix : {FALSE}, abs : BOOLEAN, segs : SeqsUpTo(Segs, MaxSegs)]
        \cup {[prefix |-> TRUE, abs |-> TRUE, segs |-> <<>>]}

Comp(kind, name) == [kind |-> kind, name |-> name]

ParseSeg(seg) == IF seg = ".." THEN Comp("ParentDir", "") ELSE Comp("Normal", seg)

RECURSIVE ParseSegs(_)
ParseSegs(segs) ==
    IF segs = <<>> THEN <<>>
    ELSE IF Head(segs) = "." THEN ParseSegs(Tail(segs))
    ELSE <<ParseSeg(Head(segs))>> \o ParseSegs(Tail(segs))

\* Path::components(): a "." is a component only at the front of a relative
\* path, every other "." is skipped.
Components(raw) ==
    (IF raw.prefix THEN <<Comp("Prefix", "")>> ELSE <<>>)
    \o (IF raw.abs THEN <<Comp("RootDir", "")>> ELSE <<>>)
    \o (IF ~raw.prefix /\ ~raw.abs /\ raw.segs # <<>> /\ Head(raw.segs) = "."
        THEN <<Comp("CurDir", "")>> ELSE <<>>)
    \o ParseSegs(raw.segs)

\* ------------------------------------------------------------- operations
\* GetType, GetAction and the wrapper that narrows the result.
GetOp(name, action, type, narrow) ==
    [name |-> name, action |-> action, type |-> type, narrow |-> narrow]

\* Variant: every entry point passes GetAction::CreateDefault.
get_policy_create(name) == "CreateDefault"

\* Get::get passes GetAction::ReturnNone, Get::get_default passes
\* GetAction::CreateDefault; the GetExt wrappers call one or the other.
get_policy(name) ==
    IF name \in {"get", "get_dir", "get_file"} THEN "ReturnNone" ELSE "CreateDefault"

\* A resolution that reports a missing segment as an error (ReturnError).
ErrorOps == {GetOp("get_or_error", "ReturnError", "Directory", "node")}

GetOps ==
    { GetOp("get", get_policy("get"), "Directory", "node"),
      GetOp("get_default", get_policy("get_default"), "File", "node"),
      GetOp("get_dir", get_policy("get_dir"), "Directory", "dir"),
      GetOp("get_dir_default", get_policy("get_dir_default"), "Directory", "dir"),
      GetOp("get_file", get_policy("get_file"), "File", "file"),
      GetOp("get_file_default", get_policy("get_file_default"), "File", "file") }
        \cup ErrorOps

ReadOnlyNames == {"get", "get_dir", "get_file"}
CreateNames == {"get_default", "get_dir_default", "get_file_default"}

NoOp == GetOp("", "ReturnNone", "Directory", "node")

Pending == [tag |-> "Pending", node |-> NoNode, err |-> ""]
OkSome(n) == [tag |-> "Some", node |-> n, err |-> ""]
OkNone == [tag |-> "None", node |-> NoNode, err |-> ""]
Err(e) == [tag |-> "Err", node |-> NoNode, err |-> e]

\* A caller's position in Directory::get and its locals; `made` records the
\* entries the call has put into children maps.
IdleTask ==
    [pc |-> "idle", op |-> NoOp, start |-> NoNode, path |-> <<>>, pos |-> 0,
     current |-> NoNode, new |-> NoNode, result |-> Pending, made |-> {}]

\* A caller's position in DataExt::read, DataExt::write or a Count query.
NoValue == 0 - 1

IdleQuery == [pc |-> "idle", kind |-> "", node |-> NoNode, f |-> "", seen |-> NoValue]

\* The closures callers hand to write: |mut v| *v += 1 and |mut v| *v *= 2, on
\* a payload type that wraps at ValueMod.
Closures == {"inc", "dbl"}

Apply(f, v) == IF f = "inc" THEN (v + 1) % ValueMod ELSE (2 * v) % ValueMod

\* ------------------------------------------------- ownership (Arc / Weak)
Handles(T) == {T.start, T.current, T.new, T.result.node} \ {NoNode}

Roots(f, ts) == (IF f THEN {RootId} ELSE {}) \cup UNION {Handles(ts[t]) : t \in Tasks}

\* Variant: the parent edge is a strong reference (Arc instead of Weak).
RECURSIVE ReachParents(_, _)
ReachParents(ns, S) ==
    LET next == S \cup (({ns[p[1]].children[p[2]] : p \in S \X Names}
                         \cup {ns[n].parent.ref : n \in S}) \ {NoNode})
    IN  IF next = S THEN S ELSE ReachParents(ns, next)

RECURSIVE Reach(_, _)
Reach(ns, S) ==
    LET next == S \cup ({ns[p[1]].children[p[2]] : p \in S \X Names} \ {NoNode})
    IN  IF next = S THEN S ELSE Reach(ns, next)

\* Dropping the last strong handle destroys a node; its allocation is released
\* once no Weak reference to it is left.
Sweep(ns, roots) ==
    LET alive == Reach(ns, roots)
    IN  [n \in NodeIds |->
            IF n \in alive THEN ns[n]
            ELSE IF \E m \in alive : ns[m].parent.ref = n THEN DeadNode
            ELSE FreeNode]

FreeIds(ns) == {n \in NodeIds : ns[n].kind = "Free"}

NewId(ns) == CHOOSE n \in FreeIds(ns) : \A m \in FreeIds(ns) : n <= m

\* Reference::upgrade
upgrade(ns, ref) == IF ref # NoNode /\ ns[ref].kind = "Directory" THEN ref ELSE NoNode

\* Variant: the parent edge is followed without upgrading it.
parent_unchecked(ns, d) == ns[d].parent.ref

\* Child::parent for Directory
parent(ns, d) == IF ns[d].parent = NoParent THEN NoNode ELSE upgrade(ns, ns[d].parent.ref)

\* Root blanket implementation: is_root = parent().is_none()
is_root(ns, d) == parent(ns, d) = NoNode

\* children.get(name)
get_child(ns, d, name) == ns[d].children[name]

\* Variant: HashMap::insert, which replaces an entry that is present.
try_insert_overwrite(children, name, node) == [children EXCEPT ![name] = node]

\* Variant: the new entry is put into a fresh map that replaces the old one.
try_insert_fresh(children, name, node) ==
    IF children[name] = NoNode THEN [EmptyChildren EXCEPT ![name] = node] ELSE children

\* Variant: the node is returned without being put into the map.
try_insert_lost(children, name, node) == children

\* HashMap::try_insert: the map after the call.
try_insert(children, name, node) ==
    IF children[name] = NoNode THEN [children EXCEPT ![name] = node] ELSE children

\* Variant: the caller's own node is returned whether or not it was inserted.
try_insert_node_own(children, name, node) == node

\* Variant: a failed try_insert yields no node.
try_insert_node_new(children, name, node) ==
    IF children[name] = NoNode THEN node ELSE NoNode

\* match children.try_insert(..) { Ok(node) => node.clone(),
\*                               Err(err) => err.entry.get().clone() }
try_insert_node(children, name, node) ==
    IF children[name] = NoNode THEN node ELSE children[name]

\* --------------------------------------------------------------- results
\* Get::get_default for Directory: a missing node is an internal error.
get_default(op, raw) ==
    IF op.action = "CreateDefault" /\ raw.tag = "None" THEN Err("Other") ELSE raw

\* Variant: the typed wrappers hand the node on without looking at its kind.
get_ext_unchecked(op, res, ns) == res

\* GetExt blanket implementation: get_dir / get_dir_default / get_file /
\* get_file_default narrow the node to the requested kind.
get_ext(op, res, ns) ==
    IF res.tag # "Some" THEN res
    ELSE IF op.narrow = "dir" /\ ns[res.node].kind = "File" THEN Err("GetDirError::UnexpectedFile")
    ELSE IF op.narrow = "file" /\ ns[res.node].kind = "Directory" THEN Err("GetFileError::UnexpectedDirectory")
    ELSE res

Return(op, raw, ns) == get_ext(op, get_default(op, raw), ns)

\* GetPosition of the named component just taken: Child when no component
\* follows it, Parent otherwise (components.peek()).
GetPosition(T) == IF T.pos > Len(T.path) THEN "Child" ELSE "Parent"

\* Variant: get_named hands the requested kind on at every position.
get_named_type_same(position, type) == type

\* get_named: the kind handed to get_action.
get_named_type(position, type) == IF position = "Child" THEN type ELSE "Directory"

\* Variant: the new node gets an empty Weak instead of this.weak.clone().
new_node_unparented(type, name, weak) ==
    IF type = "Directory" THEN DirectoryCreate([name |-> name, ref |-> NoNode])
    ELSE FileCreate([name |-> name, ref |-> NoNode])

\* get_action, GetAction::CreateDefault: the node built before the map is locked.
new_node(type, name, weak) ==
    IF type = "Directory" THEN DirectoryCreate([name |-> name, ref |-> weak])
    ELSE FileCreate([name |-> name, ref |-> weak])

\* ----------------------------------------------------------------- state
Init ==
    /\ nodes = [n \in NodeIds |-> IF n = RootId THEN create_root ELSE FreeNode]
    /\ fs = TRUE
    /\ tasks = [t \in Tasks |-> IdleTask]
    /\ node_lock = [n \in NodeIds |-> {}]
    /\ children_lock = [n \in NodeIds |-> [readers |-> {}, writer |-> NoTask]]
    /\ value_lock = [n \in NodeIds |-> [readers |-> {}, writer |-> NoTask]]
    /\ queries = [t \in Tasks |-> IdleQuery]
    /\ writes = [n \in NodeIds |-> <<>>]

Update(t, T2, ns) ==
    /\ tasks' = [tasks EXCEPT ![t] = T2]
    /\ nodes' = Sweep(ns, Roots(fs, tasks'))

\* Variant: a call that fails takes the entries it made out of the maps again.
FinishRollback(t, raw) ==
    LET T == tasks[t]
        res == Return(T.op, raw, nodes)
        undone == [n \in NodeIds |->
                     [nodes[n] EXCEPT !.children =
                         [x \in Names |->
                             IF \E m \in T.made : m.dir = n /\ m.name = x
                             THEN NoNode ELSE nodes[n].children[x]]]]
    IN  Update(t, [T EXCEPT !.pc = "done", !.current = NoNode, !.new = NoNode, !.result = res],
               IF res.tag = "Err" THEN undone ELSE nodes)

Finish(t, raw) ==
    Update(t, [tasks[t] EXCEPT !.pc = "done", !.current = NoNode, !.new = NoNode,
                               !.result = Return(tasks[t].op, raw, nodes)], nodes)

Normals(path, from) == Cardinality({i \in from..Len(path) : path[i].kind = "Normal"})

\* Nodes a running create-on-demand call may still allocate.
Reserved(T) ==
    IF T.pc \in {"idle", "done"} \/ T.op.action # "CreateDefault" THEN 0
    ELSE Normals(T.path, IF T.pc = "loop" THEN T.pos ELSE T.pos - 1)
         - (IF T.new # NoNode THEN 1 ELSE 0)

RECURSIVE ReservedBy(_)
ReservedBy(S) ==
    IF S = {} THEN 0
    ELSE LET t == CHOOSE x \in S : TRUE IN Reserved(tasks[t]) + ReservedBy(S \ {t})

Quiet == \A t \in Tasks : tasks[t].pc \in {"idle", "done"}

\* The directory handles a caller can start a resolution from: the FileSystem's
\* root and the Directory handle it kept.
StartHandles(t) == (IF fs THEN {RootId} ELSE {}) \cup ({tasks[t].start} \ {NoNode})

\* The Directory handles a caller has after a call: the one it called on and
\* the one the call returned.
KeptHandles(t) ==
    {h \in {tasks[t].start, tasks[t].result.node} \ {NoNode} : nodes[h].kind = "Directory"}

\* ---------------------------------------------------------------- actions
\* A caller enters Directory::get(path, get_action, get_type) on `start`.
Call(t, start, raw, op) ==
    /\ tasks[t].pc = "idle"
    /\ start \in StartHandles(t)
    /\ op.action = "CreateDefault" =>
           Cardinality(FreeIds(nodes)) >= ReservedBy(Tasks \ {t}) + Normals(Components(raw), 1)
    /\ Update(t, [pc |-> "loop", op |-> op, start |-> start, path |-> Components(raw),
                  pos |-> 1, current |-> start, new |-> NoNode, result |-> Pending,
                  made |-> {}], nodes)
    /\ UNCHANGED <<fs, node_lock, children_lock, query_vars>>

\* while let Some(component) = components.next() ... Ok(current)
LoopEnd(t) ==
    LET T == tasks[t] IN
    /\ T.pc = "loop"
    /\ T.pos > Len(T.path)
    /\ Finish(t, IF T.current = NoNode THEN OkNone ELSE OkSome(T.current))
    /\ UNCHANGED <<fs, node_lock, children_lock, query_vars>>

\* _ => return Ok(None)
LoopNone(t) ==
    LET T == tasks[t] IN
    /\ T.pc = "loop"
    /\ T.pos <= Len(T.path)
    /\ T.current = NoNode
    /\ Finish(t, OkNone)
    /\ UNCHANGED <<fs, node_lock, children_lock, query_vars>>

\* Variant: a File with components left is taken for a missing node.
LoopFileNone(t) ==
    LET T == tasks[t] IN
    /\ T.pc = "loop"
    /\ T.pos <= Len(T.path)
    /\ T.current # NoNode
    /\ nodes[T.current].kind = "File"
    /\ Finish(t, OkNone)
    /\ UNCHANGED <<fs, node_lock, children_lock, query_vars>>

\* Variant: a `..` component at a File whose parent is alive moves to that
\* parent.
LoopFileUp(t) ==
    LET T == tasks[t] IN
    /\ T.pc = "loop"
    /\ T.pos <= Len(T.path)
    /\ T.current # NoNode
    /\ nodes[T.current].kind = "File"
    /\ IF T.path[T.pos].kind = "ParentDir" /\ upgrade(nodes, nodes[T.current].parent.ref) # NoNode
       THEN Update(t, [T EXCEPT !.pos = @ + 1,
                                !.current = upgrade(nodes, nodes[T.current].parent.ref)], nodes)
       ELSE Finish(t, Err("UnexpectedFile"))
    /\ UNCHANGED <<fs, node_lock, children_lock, query_vars>>

\* Some(Node::File(_)) => return Err(GetError::UnexpectedFile)
LoopFile(t) ==
    LET T == tasks[t] IN
    /\ T.pc = "loop"
    /\ T.pos <= Len(T.path)
    /\ T.current # NoNode
    /\ nodes[T.current].kind = "File"
    /\ Finish(t, Err("UnexpectedFile"))
    /\ UNCHANGED <<fs, node_lock, children_lock, query_vars>>

AtDirectory(T, kind) ==
    /\ T.pc = "loop"
    /\ T.pos <= Len(T.path)
    /\ T.current # NoNode
    /\ nodes[T.current].kind = "Directory"
    /\ T.path[T.pos].kind = kind

\* Variant: a `.` component is taken for a missing node.
LoopCurDirNone(t) ==
    LET T == tasks[t] IN
    /\ AtDirectory(T, "CurDir")
    /\ Update(t, [T EXCEPT !.pos = @ + 1, !.current = NoNode], nodes)
    /\ UNCHANGED <<fs, node_lock, children_lock, query_vars>>

\* Component::CurDir => {}
LoopCurDir(t) ==
    LET T == tasks[t] IN
    /\ AtDirectory(T, "CurDir")
    /\ Update(t, [T EXCEPT !.pos = @ + 1], nodes)
    /\ UNCHANGED <<fs, node_lock, children_lock, query_vars>>

\* Component::Prefix(_) => return Err(GetError::UnexpectedPrefix)
LoopPrefix(t) ==
    LET T == tasks[t] IN
    /\ AtDirectory(T, "Prefix")
    /\ Finish(t, Err("UnexpectedPrefix"))
    /\ UNCHANGED <<fs, node_lock, children_lock, query_vars>>

\* A component that reads the directory: self.read() is acquired (the lock of
\* the node itself is only ever read-locked).
LoopRead(t, kind, pc) ==
    LET T == tasks[t] IN
    /\ AtDirectory(T, kind)
    /\ Update(t, [T EXCEPT !.pos = @ + 1, !.pc = pc], nodes)
    /\ node_lock' = [node_lock EXCEPT ![T.current] = @ \cup {t}]
    /\ UNCHANGED <<fs, children_lock, query_vars>>

LoopRootDir(t) == LoopRead(t, "RootDir", "get_root")

LoopParentDir(t) == LoopRead(t, "ParentDir", "get_parent")

LoopNormal(t) == LoopRead(t, "Normal", "get_child")

\* Variant: the error of get_root is returned with the read guard still held.
GetRootErrHold(t) ==
    LET T == tasks[t] IN
    /\ T.pc = "get_root"
    /\ IF is_root(nodes, T.current)
       THEN /\ Update(t, [T EXCEPT !.pc = "loop"], nodes)
            /\ node_lock' = [node_lock EXCEPT ![T.current] = @ \ {t}]
       ELSE /\ Finish(t, Err("UnexpectedRoot"))
            /\ UNCHANGED node_lock
    /\ UNCHANGED <<fs, children_lock, query_vars>>

\* get_root: is_root() decides, the read guard is dropped.
GetRoot(t) ==
    LET T == tasks[t] IN
    /\ T.pc = "get_root"
    /\ node_lock' = [node_lock EXCEPT ![T.current] = @ \ {t}]
    /\ IF is_root(nodes, T.current)
       THEN Update(t, [T EXCEPT !.pc = "loop"], nodes)
       ELSE Finish(t, Err("UnexpectedRoot"))
    /\ UNCHANGED <<fs, children_lock, query_vars>>

\* Variant: the read guard of the node is still held when the walk goes on to
\* the parent.
GetParentHold(t) ==
    LET T == tasks[t] IN
    /\ T.pc = "get_parent"
    /\ IF parent(nodes, T.current) # NoNode
       THEN /\ Update(t, [T EXCEPT !.pc = "loop", !.current = parent(nodes, T.current)], nodes)
            /\ UNCHANGED node_lock
       ELSE /\ Finish(t, Err("UnexpectedOrphan"))
            /\ node_lock' = [node_lock EXCEPT ![T.current] = @ \ {t}]
    /\ UNCHANGED <<fs, children_lock, query_vars>>

\* get_parent: parent() upgrades the weak reference.
GetParent(t) ==
    LET T == tasks[t] IN
    /\ T.pc = "get_parent"
    /\ node_lock' = [node_lock EXCEPT ![T.current] = @ \ {t}]
    /\ IF parent(nodes, T.current) # NoNode
       THEN Update(t, [T EXCEPT !.pc = "loop", !.current = parent(nodes, T.current)], nodes)
       ELSE Finish(t, Err("UnexpectedOrphan"))
    /\ UNCHANGED <<fs, children_lock, query_vars>>

\* get_child: this.children.read() while the node's read guard is held.
GetChildRead(t) ==
    LET T == tasks[t] IN
    /\ T.pc = "get_child"
    /\ children_lock[T.current].writer = NoTask
    /\ children_lock' = [children_lock EXCEPT ![T.current].readers = @ \cup {t}]
    /\ Update(t, [T EXCEPT !.pc = "get_child_read"], nodes)
    /\ UNCHANGED <<fs, node_lock, query_vars>>

\* Variant: one error for a missing segment at every position.
return_error_endpoint(position) == Err("EndpointNotFound")

\* ReturnError: the error of a missing segment, by its position.
return_error(position) ==
    IF position = "Parent" THEN Err("IntermediateNotFound") ELSE Err("EndpointNotFound")

\* Variant: a missing segment is an error under every policy.
get_action_error(action, position) == return_error(position)

\* get_action for a policy that creates nothing: GetAction::ReturnNone => Ok(None).
get_action(action, position) ==
    IF action = "ReturnNone" THEN OkNone ELSE return_error(position)

\* Variant: the read guard of the children map is still held when get_named
\* goes on to get_action.
GetChildGetHold(t) ==
    LET T == tasks[t]
        d == T.current
        found == get_child(nodes, d, T.path[T.pos - 1].name)
    IN
    /\ T.pc = "get_child_read"
    /\ node_lock' = [node_lock EXCEPT ![d] = @ \ {t}]
    /\ IF found # NoNode
       THEN Update(t, [T EXCEPT !.pc = "loop", !.current = found], nodes)
       ELSE IF T.op.action = "CreateDefault"
       THEN Update(t, [T EXCEPT !.pc = "get_action"], nodes)
       ELSE Update(t, [T EXCEPT !.pc = "loop", !.current = NoNode], nodes)
    /\ UNCHANGED <<fs, children_lock, query_vars>>

\* Variant: under CreateDefault get_named hands a found node to get_action as
\* well.
GetChildGetAnew(t) ==
    LET T == tasks[t]
        d == T.current
        found == get_child(nodes, d, T.path[T.pos - 1].name)
    IN
    /\ T.pc = "get_child_read"
    /\ children_lock' = [children_lock EXCEPT ![d].readers = @ \ {t}]
    /\ node_lock' = [node_lock EXCEPT ![d] = @ \ {t}]
    /\ IF T.op.action = "CreateDefault"
       THEN Update(t, [T EXCEPT !.pc = "get_action"], nodes)
       ELSE IF found # NoNode
       THEN Update(t, [T EXCEPT !.pc = "loop", !.current = found], nodes)
       ELSE IF get_action(T.op.action, GetPosition(T)).tag = "None"
       THEN Update(t, [T EXCEPT !.pc = "loop", !.current = NoNode], nodes)
       ELSE Finish(t, get_action(T.op.action, GetPosition(T)))
    /\ UNCHANGED <<fs, query_vars>>

\* Variant: get_named looks the name up in the directory the call started
\* from.
GetChildGetFromStart(t) ==
    LET T == tasks[t]
        d == T.current
        found == get_child(nodes, T.start, T.path[T.pos - 1].name)
    IN
    /\ T.pc = "get_child_read"
    /\ children_lock' = [children_lock EXCEPT ![d].readers = @ \ {t}]
    /\ node_lock' = [node_lock EXCEPT ![d] = @ \ {t}]
    /\ IF found # NoNode
       THEN Update(t, [T EXCEPT !.pc = "loop", !.current = found], nodes)
       ELSE IF T.op.action = "CreateDefault"
       THEN Update(t, [T EXCEPT !.pc = "get_action"], nodes)
       ELSE IF get_action(T.op.action, GetPosition(T)).tag = "None"
       THEN Update(t, [T EXCEPT !.pc = "loop", !.current = NoNode], nodes)
       ELSE Finish(t, get_action(T.op.action, GetPosition(T)))
    /\ UNCHANGED <<fs, query_vars>>

\* get_child returns children.get(name); both guards are dropped. get_named
\* returns a found node, and hands a miss to get_action.
GetChildGet(t) ==
    LET T == tasks[t]
        d == T.current
        found == get_child(nodes, d, T.path[T.pos - 1].name)
    IN
    /\ T.pc = "get_child_read"
    /\ children_lock' = [children_lock EXCEPT ![d].readers = @ \ {t}]
    /\ node_lock' = [node_lock EXCEPT ![d] = @ \ {t}]
    /\ IF found # NoNode
       THEN Update(t, [T EXCEPT !.pc = "loop", !.current = found], nodes)
       ELSE IF T.op.action = "CreateDefault"
       THEN Update(t, [T EXCEPT !.pc = "get_action"], nodes)
       ELSE IF get_action(T.op.action, GetPosition(T)).tag = "None"
       THEN Update(t, [T EXCEPT !.pc = "loop", !.current = NoNode], nodes)
       ELSE Finish(t, get_action(T.op.action, GetPosition(T)))
    /\ UNCHANGED <<fs, query_vars>>

\* get_action, CreateDefault: self.read(), then the new node is built with
\* (name, this.weak) as its parent edge.
GetActionCreate(t) ==
    LET T == tasks[t]
        d == T.current
        id == NewId(nodes)
        type == get_named_type(GetPosition(T), T.op.type)
    IN
    /\ T.pc = "get_action"
    /\ FreeIds(nodes) # {}
    /\ node_lock' = [node_lock EXCEPT ![d] = @ \cup {t}]
    /\ Update(t, [T EXCEPT !.pc = "get_action_new", !.new = id],
              [nodes EXCEPT ![id] = new_node(type, T.path[T.pos - 1].name, d)])
    /\ UNCHANGED <<fs, children_lock, query_vars>>

\* this.children.write()
GetActionWrite(t) ==
    LET T == tasks[t] IN
    /\ T.pc = "get_action_new"
    /\ children_lock[T.current].writer = NoTask
    /\ children_lock[T.current].readers = {}
    /\ children_lock' = [children_lock EXCEPT ![T.current].writer = t]
    /\ Update(t, [T EXCEPT !.pc = "get_action_write"], nodes)
    /\ UNCHANGED <<fs, node_lock, query_vars>>

\* children.try_insert(name, new_node): the inserted or the existing node is
\* returned; both guards are dropped, an unused new node with them.
GetActionInsert(t) ==
    LET T == tasks[t]
        d == T.current
        name == T.path[T.pos - 1].name
        children == try_insert(nodes[d].children, name, T.new)
        node == try_insert_node(nodes[d].children, name, T.new)
    IN
    /\ T.pc = "get_action_write"
    /\ children_lock' = [children_lock EXCEPT ![d].writer = NoTask]
    /\ node_lock' = [node_lock EXCEPT ![d] = @ \ {t}]
    /\ Update(t, [T EXCEPT !.pc = "loop", !.current = node, !.new = NoNode,
                            !.made = IF children[name] = T.new /\ node = T.new
                                     THEN @ \cup {[id |-> T.new, dir |-> d, name |-> name]}
                                     ELSE @],
              [nodes EXCEPT ![d].children = children])
    /\ UNCHANGED <<fs, query_vars>>

\* The caller lets go of the call's result, keeping at most one Directory handle.
Release(t, keep) ==
    /\ tasks[t].pc = "done"
    /\ keep \in KeptHandles(t) \cup {NoNode}
    /\ Update(t, [IdleTask EXCEPT !.start = keep], nodes)
    /\ UNCHANGED <<fs, node_lock, children_lock, query_vars>>

\* The FileSystem value (the root's handle) is dropped.
DropFs ==
    /\ fs
    /\ fs' = FALSE
    /\ nodes' = Sweep(nodes, Roots(FALSE, tasks))
    /\ UNCHANGED <<tasks, node_lock, children_lock, query_vars>>

\* The steps of a resolution whose path has neither a `.` nor a prefix.
Walk(t) ==
    \/ LoopEnd(t)
    \/ LoopNone(t)
    \/ LoopFile(t)
    \/ LoopRootDir(t)
    \/ LoopParentDir(t)
    \/ LoopNormal(t)
    \/ GetRoot(t)
    \/ GetParent(t)
    \/ GetChildRead(t)
    \/ GetChildGet(t)
    \/ GetActionCreate(t)
    \/ GetActionWrite(t)
    \/ GetActionInsert(t)

Step(t) ==
    \/ Walk(t)
    \/ LoopCurDir(t)
    \/ LoopPrefix(t)

\* One caller: calls and the drop of the FileSystem follow one another.
Caller == 1

Next ==
    \/ \E start \in NodeIds, raw \in RawPaths, op \in GetOps : Call(Caller, start, raw, op)
    \/ Step(Caller)
    \/ \E keep \in NodeIds \cup {NoNode} : Release(Caller, keep)
    \/ Quiet /\ DropFs

Spec == Init /\ [][Next]_vars

\* Concurrent callers on one tree, each resolving one of a few paths.
ConcPaths ==
    { [prefix |-> FALSE, abs |-> TRUE, segs |-> <<"a">>],
      [prefix |-> FALSE, abs |-> FALSE, segs |-> <<"b">>],
      [prefix |-> FALSE, abs |-> FALSE, segs |-> <<"a", "b">>],
      [prefix |-> FALSE, abs |-> FALSE, segs |-> <<"..">>] }

ConcOps == {op \in GetOps : op.name \in {"get_dir", "get_dir_default", "get_file_default"}}

ConcNext ==
    \/ \E t \in Tasks, start \in NodeIds, raw \in ConcPaths, op \in ConcOps : Call(t, start, raw, op)
    \/ \E t \in Tasks : Walk(t)
    \/ \E t \in Tasks, keep \in NodeIds \cup {NoNode} : Release(t, keep)
    \/ DropFs

SpecConc == Init /\ [][ConcNext]_vars

\* ------------------------------------------------------------ properties
\* Directory::get with GetAction::ReturnNone run to its end on the tree ns,
\* from component i of path with `current` as the current node.
RECURSIVE get_none(_, _, _, _)
get_none(ns, current, path, i) ==
    IF i > Len(path) THEN (IF current = NoNode THEN OkNone ELSE OkSome(current))
    ELSE IF current = NoNode THEN OkNone
    ELSE IF ns[current].kind # "Directory" THEN Err("UnexpectedFile")
    ELSE IF path[i].kind = "CurDir" THEN get_none(ns, current, path, i + 1)
    ELSE IF path[i].kind = "Prefix" THEN Err("UnexpectedPrefix")
    ELSE IF path[i].kind = "RootDir"
         THEN (IF is_root(ns, current) THEN get_none(ns, current, path, i + 1)
               ELSE Err("UnexpectedRoot"))
    ELSE IF path[i].kind = "ParentDir"
         THEN (IF parent(ns, current) # NoNode THEN get_none(ns, parent(ns, current), path, i + 1)
               ELSE Err("UnexpectedOrphan"))
    ELSE get_none(ns, get_child(ns, current, path[i].name), path, i + 1)

\* Directory::get under the policy and kind of op, run to its end by one caller
\* on the tree ns, from component i of path with `current` as the current
\* node: the raw result and the tree it leaves.
RECURSIVE get_run(_, _, _, _, _)
get_run(ns, current, components, i, op) ==
    IF i > Len(components)
    THEN [res |-> IF current = NoNode THEN OkNone ELSE OkSome(current), ns |-> ns]
    ELSE IF current = NoNode THEN [res |-> OkNone, ns |-> ns]
    ELSE IF ns[current].kind # "Directory" THEN [res |-> Err("UnexpectedFile"), ns |-> ns]
    ELSE IF components[i].kind = "CurDir" THEN get_run(ns, current, components, i + 1, op)
    ELSE IF components[i].kind = "Prefix" THEN [res |-> Err("UnexpectedPrefix"), ns |-> ns]
    ELSE IF components[i].kind = "RootDir"
         THEN (IF is_root(ns, current) THEN get_run(ns, current, components, i + 1, op)
               ELSE [res |-> Err("UnexpectedRoot"), ns |-> ns])
    ELSE IF components[i].kind = "ParentDir"
         THEN (IF parent(ns, current) # NoNode
               THEN get_run(ns, parent(ns, current), components, i + 1, op)
               ELSE [res |-> Err("UnexpectedOrphan"), ns |-> ns])
    ELSE LET x == components[i].name
             position == IF i < Len(components) THEN "Parent" ELSE "Child"
             found == get_child(ns, current, x)
         IN  IF found # NoNode THEN get_run(ns, found, components, i + 1, op)
             ELSE IF op.action = "CreateDefault"
             THEN LET id == NewId(ns)
                      built == [ns EXCEPT ![id] =
                                   new_node(get_named_type(position, op.type), x, current)]
                      node == try_insert_node(built[current].children, x, id)
                      after == [built EXCEPT ![current].children =
                                   try_insert(built[current].children, x, id)]
                  IN  get_run(after, node, components, i + 1, op)
             ELSE IF get_action(op.action, position).tag = "None"
             THEN get_run(ns, NoNode, components, i + 1, op)
             ELSE [res |-> get_action(op.action, position), ns |-> ns]

Moved(t) == tasks'[t] # tasks[t]

Created(T) == T.pc = "done" /\ T.op.name \in CreateNames /\ T.result.tag = "Some"

HasParentDir(path) == \E i \in 1..Len(path) : path[i].kind = "ParentDir"

NormalOnly(path) == \A i \in 1..Len(path) : path[i].kind = "Normal"

\* ---------------------------------------------------------------- queries
\* Option<String>::None of name().
NoName == ""

\* Named::name: the name of the parent edge, None without one.
name(ns, n) == IF ns[n].parent = NoParent THEN NoName ELSE ns[n].parent.name

\* Variant: the predicate is not applied.
count_predicate_all(ns, d, kinds) == Cardinality({x \in Names : ns[d].children[x] # NoNode})

\* count_predicate: the children the predicate accepts.
count_predicate(ns, d, kinds) ==
    Cardinality({x \in Names :
                    /\ ns[d].children[x] # NoNode
                    /\ ns[ns[d].children[x]].kind \in kinds})

count(ns, d) == count_predicate(ns, d, {"Directory", "File"})

count_dir(ns, d) == count_predicate(ns, d, {"Directory"})

count_file(ns, d) == count_predicate(ns, d, {"File"})

\* Variant: a node without a parent reports the empty path.
RECURSIVE path_relative(_, _)
path_relative(ns, n) ==
    IF name(ns, n) # NoName /\ parent(ns, n) # NoNode
    THEN Append(path_relative(ns, parent(ns, n)), Comp("Normal", name(ns, n)))
    ELSE <<>>

\* Variant: a node with a name joins it whether or not its parent is alive.
RECURSIVE path_named(_, _)
path_named(ns, n) ==
    IF name(ns, n) = NoName THEN <<Comp("RootDir", "")>>
    ELSE IF parent(ns, n) = NoNode THEN <<Comp("RootDir", ""), Comp("Normal", name(ns, n))>>
    ELSE Append(path_named(ns, parent(ns, n)), Comp("Normal", name(ns, n)))

\* Located::path: parent.path().join(name) while name() and parent() are Some,
\* PathBuf::from("/") otherwise.
RECURSIVE path(_, _)
path(ns, n) ==
    IF name(ns, n) # NoName /\ parent(ns, n) # NoNode
    THEN Append(path(ns, parent(ns, n)), Comp("Normal", name(ns, n)))
    ELSE <<Comp("RootDir", "")>>

Alive(n) == nodes[n].kind \in {"Directory", "File"}

\* ------------------------------------------------ payload and count calls
\* The handles a caller can use: the FileSystem (it derefs to the root), the
\* directory it called on and the node its last call returned.
QueryHandles(t) ==
    (IF fs THEN {RootId} ELSE {}) \cup ({tasks[t].start, tasks[t].result.node} \ {NoNode})

QIdle(t) == queries[t].pc = "idle"

Writing(n) == {u \in Tasks : queries[u].pc # "idle" /\ queries[u].kind = "write" /\ queries[u].node = n}

CountKinds == {"count", "count_dir", "count_file"}

\* A caller enters read(f), write(f) or a count query on a handle it holds.
QueryCall(t, n, kind, f) ==
    /\ tasks[t].pc \in {"idle", "done"}
    /\ QIdle(t)
    /\ n \in QueryHandles(t)
    /\ kind \in CountKinds => nodes[n].kind = "Directory"
    /\ kind = "write" => Len(writes[n]) + Cardinality(Writing(n)) < MaxWrites
    /\ (kind = "write") = (f \in Closures)
    /\ queries' = [queries EXCEPT ![t] =
                      [pc |-> IF kind \in CountKinds THEN "count" ELSE "data",
                       kind |-> kind, node |-> n, f |-> f, seen |-> NoValue]]
    /\ UNCHANGED <<nodes, fs, tasks, node_lock, children_lock, value_lock, writes>>

\* Data::data: self.read().map(|this| this.value.clone()), the handle to the
\* cell itself; the read guard of the node is taken and dropped.
Data(t) ==
    /\ queries[t].pc = "data"
    /\ queries' = [queries EXCEPT ![t].pc = IF queries[t].kind = "read" THEN "value_read"
                                             ELSE "value_write"]
    /\ UNCHANGED <<nodes, fs, tasks, node_lock, children_lock, value_lock, writes>>

\* Variant: the write guard does not exclude another writer.
can_write_shared(lock) == lock.readers = {}

\* RwLock::write: no reader and no writer holds the cell.
can_write(lock) == lock.readers = {} /\ lock.writer = NoTask

\* RwLock::read: no writer holds the cell.
can_read(lock) == lock.writer = NoTask

\* value.read() is acquired.
ValueRead(t) ==
    LET q == queries[t] IN
    /\ q.pc = "value_read"
    /\ can_read(value_lock[q.node])
    /\ value_lock' = [value_lock EXCEPT ![q.node].readers = @ \cup {t}]
    /\ queries' = [queries EXCEPT ![t].pc = "value_reading"]
    /\ UNCHANGED <<nodes, fs, tasks, node_lock, children_lock, writes>>

\* .map(f) of read: f sees the value, the guard is dropped.
ReadGet(t) ==
    LET q == queries[t] IN
    /\ q.pc = "value_reading"
    /\ value_lock' = [value_lock EXCEPT ![q.node].readers = @ \ {t}]
    /\ queries' = [queries EXCEPT ![t].pc = "returned", ![t].seen = nodes[q.node].value]
    /\ UNCHANGED <<nodes, fs, tasks, node_lock, children_lock, writes>>

\* value.write() is acquired.
ValueWrite(t) ==
    LET q == queries[t] IN
    /\ q.pc = "value_write"
    /\ can_write(value_lock[q.node])
    /\ value_lock' = [value_lock EXCEPT ![q.node].writer = t]
    /\ queries' = [queries EXCEPT ![t].pc = "value_writing"]
    /\ UNCHANGED <<nodes, fs, tasks, node_lock, children_lock, writes>>

\* .map(f) of write: f reads the value through the guard ...
WriteLoad(t) ==
    LET q == queries[t] IN
    /\ q.pc = "value_writing"
    /\ queries' = [queries EXCEPT ![t].pc = "value_loaded", ![t].seen = nodes[q.node].value]
    /\ UNCHANGED <<nodes, fs, tasks, node_lock, children_lock, value_lock, writes>>

\* Variant: the handle holds a copy of the value, and the write changes the copy.
write_value_copy(ns, n, v) == ns

\* Variant: the write puts a detached node with the new value in the node's place.
write_value_detached(ns, n, v) == [ns EXCEPT ![n].value = v, ![n].parent = NoParent]

\* The store through the write guard into the cell all handles share.
write_value(ns, n, v) == [ns EXCEPT ![n].value = v]

\* ... and stores the new one; the guard is dropped.
WriteStore(t) ==
    LET q == queries[t]
        v == Apply(q.f, q.seen)
    IN
    /\ q.pc = "value_loaded"
    /\ nodes' = write_value(nodes, q.node, v)
    /\ writes' = [writes EXCEPT ![q.node] = Append(@, [task |-> t, f |-> q.f, value |-> v])]
    /\ value_lock' = [value_lock EXCEPT ![q.node].writer = NoTask]
    /\ queries' = [queries EXCEPT ![t].pc = "returned", ![t].seen = v]
    /\ UNCHANGED <<fs, tasks, node_lock, children_lock>>

\* count_predicate: self.read() ...
CountStart(t) ==
    LET q == queries[t] IN
    /\ q.pc = "count"
    /\ node_lock' = [node_lock EXCEPT ![q.node] = @ \cup {t}]
    /\ queries' = [queries EXCEPT ![t].pc = "count_children"]
    /\ UNCHANGED <<nodes, fs, tasks, children_lock, value_lock, writes>>

\* ... this.children.read() while the node's read guard is held ...
CountRead(t) ==
    LET q == queries[t] IN
    /\ q.pc = "count_children"
    /\ children_lock[q.node].writer = NoTask
    /\ children_lock' = [children_lock EXCEPT ![q.node].readers = @ \cup {t}]
    /\ queries' = [queries EXCEPT ![t].pc = "count_read"]
    /\ UNCHANGED <<nodes, fs, tasks, node_lock, value_lock, writes>>

\* ... children.values().filter(predicate).count(); both guards are dropped.
CountGet(t) ==
    LET q == queries[t] IN
    /\ q.pc = "count_read"
    /\ children_lock' = [children_lock EXCEPT ![q.node].readers = @ \ {t}]
    /\ node_lock' = [node_lock EXCEPT ![q.node] = @ \ {t}]
    /\ queries' = [queries EXCEPT ![t].pc = "returned",
                                  ![t].seen = IF q.kind = "count" THEN count(nodes, q.node)
                                              ELSE IF q.kind = "count_dir" THEN count_dir(nodes, q.node)
                                              ELSE count_file(nodes, q.node)]
    /\ UNCHANGED <<nodes, fs, tasks, value_lock, writes>>

\* The caller takes the value the call returned.
QueryReturn(t) ==
    /\ queries[t].pc = "returned"
    /\ queries' = [queries EXCEPT ![t] = IdleQuery]
    /\ UNCHANGED <<nodes, fs, tasks, node_lock, children_lock, value_lock, writes>>

DataStep(t) ==
    \/ Data(t)
    \/ ValueRead(t)
    \/ ReadGet(t)
    \/ ValueWrite(t)
    \/ WriteLoad(t)
    \/ WriteStore(t)

CountStep(t) ==
    \/ CountStart(t)
    \/ CountRead(t)
    \/ CountGet(t)

\* Two callers that create and find one directory and read and write its
\* payload beside one another.
DataPaths ==
    { [prefix |-> FALSE, abs |-> TRUE, segs |-> <<"a">>],
      [prefix |-> FALSE, abs |-> TRUE, segs |-> <<"a", "..">>] }

DataOps == {op \in GetOps : op.name \in {"get", "get_dir_default", "get_file_default"}}

\* Nodes are made at the one-segment path; the path that walks back up is
\* resolved read-only.
DataCalls == {c \in DataPaths \X DataOps : Len(c[1].segs) = 1 \/ c[2].name = "get"}

DataNext ==
    \/ \E t \in Tasks, start \in NodeIds, c \in DataCalls :
          QIdle(t) /\ Call(t, start, c[1], c[2])
    \/ \E t \in Tasks : Walk(t)
    \/ \E t \in Tasks : QIdle(t) /\ Release(t, NoNode)
    \/ \E t \in Tasks, n \in NodeIds \ {RootId}, kind \in {"read", "write"},
          f \in Closures \cup {""} :
          nodes[n].kind = "Directory" /\ QueryCall(t, n, kind, f)
    \/ \E t \in Tasks : DataStep(t)
    \/ \E t \in Tasks : QueryReturn(t)

SpecData == Init /\ [][DataNext]_vars

\* Two callers that resolve down and up, count, read and write beside one
\* another on one tree.
LivePaths ==
    { [prefix |-> FALSE, abs |-> TRUE, segs |-> <<"a", "..">>],
      [prefix |-> FALSE, abs |-> FALSE, segs |-> <<"a">>] }

LiveOps == {op \in GetOps : op.name \in {"get_dir", "get_dir_default", "get_file_default"}}

\* The walk down and up is made with get_dir and get_dir_default; the file is
\* made by get_file_default at the one-segment path.
LiveCalls ==
    {c \in LivePaths \X LiveOps : (c[2].name = "get_file_default") = (Len(c[1].segs) = 1)}

LiveNext ==
    \/ \E t \in Tasks, c \in LiveCalls :
          QIdle(t) /\ Call(t, RootId, c[1], c[2])
    \/ \E t \in Tasks : Walk(t)
    \/ \E t \in Tasks : QIdle(t) /\ Release(t, NoNode)
    \/ \E t \in Tasks, n \in NodeIds, kind \in {"read", "write", "count"},
          f \in {"inc", ""} :
          nodes[n].kind = "Directory" /\ (kind = "write" => writes[n] = <<>>) /\ QueryCall(t, n, kind, f)
    \/ \E t \in Tasks : DataStep(t)
    \/ \E t \in Tasks : CountStep(t)
    \/ \E t \in Tasks : QueryReturn(t)

\* An operation of the caller is under way.
Busy(t) == tasks[t].pc \notin {"idle", "done"} \/ queries[t].pc \notin {"idle", "returned"}

\* The steps of the operations themselves, which the executor and the locks
\* schedule.
TaskStep(t) == Walk(t) \/ DataStep(t) \/ CountStep(t)

SpecLive == Init /\ [][LiveNext]_vars /\ \A t \in Tasks : SF_vars(TaskStep(t))

\* ------------------------------------------------------------- path calls
\* A caller enters Located::path on a Directory handle it holds.
PathCall(t, n) ==
    /\ tasks[t].pc \in {"idle", "done"}
    /\ QIdle(t)
    /\ n \in QueryHandles(t)
    /\ nodes[n].kind = "Directory"
    /\ queries' = [queries EXCEPT ![t] =
                      [pc |-> "path", kind |-> "path", node |-> n, f |-> "", seen |-> <<>>]]
    /\ UNCHANGED <<nodes, fs, tasks, node_lock, children_lock, value_lock, writes>>

\* self.name(): self.read() ...
PathNameRead(t) ==
    LET q == queries[t] IN
    /\ q.pc = "path"
    /\ node_lock' = [node_lock EXCEPT ![q.node] = @ \cup {t}]
    /\ queries' = [queries EXCEPT ![t].pc = "path_name"]
    /\ UNCHANGED <<nodes, fs, tasks, children_lock, value_lock, writes>>

\* ... the name of the parent edge, the guard is dropped; without a name the
\* path of this node is PathBuf::from("/"), and the callers join their names.
PathNameGet(t) ==
    LET q == queries[t] IN
    /\ q.pc = "path_name"
    /\ node_lock' = [node_lock EXCEPT ![q.node] = @ \ {t}]
    /\ IF name(nodes, q.node) = NoName
       THEN queries' = [queries EXCEPT ![t].pc = "returned",
                                       ![t].seen = <<Comp("RootDir", "")>> \o q.seen]
       ELSE queries' = [queries EXCEPT ![t].pc = "path_parent"]
    /\ UNCHANGED <<nodes, fs, tasks, children_lock, value_lock, writes>>

\* self.parent(): self.read() ...
PathParentRead(t) ==
    LET q == queries[t] IN
    /\ q.pc = "path_parent"
    /\ node_lock' = [node_lock EXCEPT ![q.node] = @ \cup {t}]
    /\ queries' = [queries EXCEPT ![t].pc = "path_parent_read"]
    /\ UNCHANGED <<nodes, fs, tasks, children_lock, value_lock, writes>>

\* ... the weak reference is upgraded, the guard is dropped; parent.path() is
\* entered on the parent, or "/" is returned without one.
PathParentGet(t) ==
    LET q == queries[t] IN
    /\ q.pc = "path_parent_read"
    /\ node_lock' = [node_lock EXCEPT ![q.node] = @ \ {t}]
    /\ IF parent(nodes, q.node) = NoNode
       THEN queries' = [queries EXCEPT ![t].pc = "returned",
                                       ![t].seen = <<Comp("RootDir", "")>> \o q.seen]
       ELSE queries' = [queries EXCEPT ![t].pc = "path",
                                       ![t].node = parent(nodes, q.node),
                                       ![t].seen = <<Comp("Normal", name(nodes, q.node))>> \o q.seen]
    /\ UNCHANGED <<nodes, fs, tasks, children_lock, value_lock, writes>>

PathStep(t) ==
    \/ PathNameRead(t)
    \/ PathNameGet(t)
    \/ PathParentRead(t)
    \/ PathParentGet(t)

\* Two callers that resolve, count, read, write and ask for paths beside one
\* another; a payload cell takes reads, writes and counts until its first write
\* has completed.
LockPaths ==
    { [prefix |-> FALSE, abs |-> TRUE, segs |-> <<"a">>],
      [prefix |-> FALSE, abs |-> TRUE, segs |-> <<"a", "..">>] }

LockOps == {op \in GetOps : op.name \in {"get_dir", "get_dir_default", "get_file_default"}}

\* Nodes are made at the one-segment path; the path that walks back up is
\* resolved read-only.
LockCalls == {c \in LockPaths \X LockOps : (Len(c[1].segs) = 1) = (c[2].name # "get_dir")}

LockNext ==
    \/ \E t \in Tasks, start \in NodeIds, c \in LockCalls :
          QIdle(t) /\ Call(t, start, c[1], c[2])
    \/ \E t \in Tasks : Walk(t)
    \/ \E t \in Tasks : QIdle(t) /\ Release(t, NoNode)
    \/ \E t \in Tasks, n \in NodeIds, kind \in {"read", "write", "count"},
          f \in {"inc", ""} :
          nodes[n].kind = "Directory" /\ writes[n] = <<>> /\ QueryCall(t, n, kind, f)
    \/ \E t \in Tasks, n \in NodeIds : PathCall(t, n)
    \/ \E t \in Tasks : DataStep(t)
    \/ \E t \in Tasks : CountStep(t)
    \/ \E t \in Tasks : PathStep(t)
    \/ \E t \in Tasks : QueryReturn(t)

SpecLock == Init /\ [][LockNext]_vars

\* ----------------------------------------------------------- cancellation
\* How a cancelled call ended: no result, `err` keeps the await it was dropped at.
Cancelled(pc) == [tag |-> "Cancelled", node |-> NoNode, err |-> pc]

\* The awaits of a resolution: self.read() of get_root, get_parent, get_child
\* and get_action, this.children.read() and this.children.write().
Suspended(T) ==
    \/ T.pc \in {"get_child", "get_action", "get_action_new"}
    \/ /\ T.pc = "loop"
       /\ T.pos <= Len(T.path)
       /\ T.current # NoNode
       /\ nodes[T.current].kind = "Directory"
       /\ T.path[T.pos].kind \in {"RootDir", "ParentDir", "Normal"}

\* The locks after a future is dropped: its guards are dropped with it.
drop_guards(lock, t) == [readers |-> lock.readers \ {t},
                         writer |-> IF lock.writer = t THEN NoTask ELSE lock.writer]

\* Variant: the guards of a dropped future stay locked.
CancelKeepGuards(t) ==
    LET T == tasks[t] IN
    /\ Suspended(T)
    /\ Update(t, [T EXCEPT !.pc = "done", !.current = NoNode, !.new = NoNode,
                            !.result = Cancelled(T.pc)], nodes)
    /\ UNCHANGED <<fs, node_lock, children_lock, query_vars>>

\* The caller's task is cancelled at an await of Directory::get: the future is
\* dropped, and with it its guards, the handles it holds and a new node that is
\* not yet in the map.
Cancel(t) ==
    LET T == tasks[t] IN
    /\ Suspended(T)
    /\ Update(t, [T EXCEPT !.pc = "done", !.current = NoNode, !.new = NoNode,
                            !.result = Cancelled(T.pc)], nodes)
    /\ node_lock' = [n \in NodeIds |-> node_lock[n] \ {t}]
    /\ children_lock' = [n \in NodeIds |-> drop_guards(children_lock[n], t)]
    /\ UNCHANGED <<fs, query_vars>>

CancelNext ==
    \/ \E t \in Tasks, start \in NodeIds, c \in LiveCalls : Call(t, start, c[1], c[2])
    \/ \E t \in Tasks : Walk(t)
    \/ \E t \in Tasks : Cancel(t)
    \/ \E t \in Tasks, keep \in NodeIds \cup {NoNode} : Release(t, keep)

\* The executor polls every task that is not cancelled and the locks are fair;
\* when a task is cancelled is up to its caller.
SpecCancel == Init /\ [][CancelNext]_vars /\ \A t \in Tasks : SF_vars(Walk(t))

\* ------------------------------------------------- creation beside counts
\* Two callers that create children by one-segment paths and count beside one
\* another.
CreatePaths == {[prefix |-> FALSE, abs |-> FALSE, segs |-> <<x>>] : x \in Names}

CreateOps == {op \in GetOps : op.name \in {"get_dir_default", "get_file_default"}}

\* The steps Directory::get takes for a one-segment path under CreateDefault.
CreateWalk(t) ==
    \/ LoopEnd(t)
    \/ LoopNormal(t)
    \/ GetChildRead(t)
    \/ GetChildGet(t)
    \/ GetActionCreate(t)
    \/ GetActionWrite(t)
    \/ GetActionInsert(t)

CreateNext ==
    \/ \E t \in Tasks, start \in NodeIds, raw \in CreatePaths, op \in CreateOps :
          QIdle(t) /\ Call(t, start, raw, op)
    \/ \E t \in Tasks : CreateWalk(t)
    \/ \E t \in Tasks : QIdle(t) /\ Release(t, NoNode)
    \/ \E t \in Tasks, n \in NodeIds, kind \in CountKinds : QueryCall(t, n, kind, "")
    \/ \E t \in Tasks : CountStep(t)
    \/ \E t \in Tasks : QueryReturn(t)

SpecCreate == Init /\ [][CreateNext]_vars /\ \A t \in Tasks : SF_vars(TaskStep(t))

\* ------------------------------------------------------- repeated calls
\* One caller that makes a call and then makes it again: the first call is
\* kept in slot First, the second runs in slot Second.
First == 1

Second == 2

\* The caller repeats a create-on-demand call that succeeded, on the same
\* Directory handle, with the same path and of the same kind.
Again(t, u) ==
    LET U == tasks[u] IN
    /\ tasks[t].pc = "idle"
    /\ Created(U)
    /\ Update(t, [pc |-> "loop", op |-> U.op, start |-> U.start, path |-> U.path,
                  pos |-> 1, current |-> U.start, new |-> NoNode, result |-> Pending,
                  made |-> {}], nodes)
    /\ UNCHANGED <<fs, node_lock, children_lock, query_vars>>

SeqPaths ==
    { [prefix |-> FALSE, abs |-> FALSE, segs |-> <<"a">>],
      [prefix |-> FALSE, abs |-> TRUE, segs |-> <<"a">>],
      [prefix |-> FALSE, abs |-> FALSE, segs |-> <<"..", "b">>],
      [prefix |-> FALSE, abs |-> FALSE, segs |-> <<"a", "..">>] }

SeqOps == {op \in GetOps : op.name \in {"get", "get_dir_default", "get_file_default"}}

SeqNext ==
    \/ \E start \in NodeIds, raw \in SeqPaths, op \in SeqOps :
           tasks[Second].pc = "idle" /\ Call(First, start, raw, op)
    \/ Walk(First)
    \/ \E keep \in NodeIds \cup {NoNode} : tasks[Second].pc = "idle" /\ Release(First, keep)
    \/ Again(Second, First)
    \/ Walk(Second)
    \/ Release(Second, NoNode)
    \/ Quiet /\ DropFs

SpecSeq == Init /\ [][SeqNext]_vars

\* ------------------------------------------- resolution under two policies
\* The resolver that takes one policy for a missing intermediate segment and
\* one for a missing endpoint, each of CreateDefault, ReturnError, ReturnNone.
Policies == {"CreateDefault", "ReturnError", "ReturnNone"}

OpenOp(intermediate, endpoint, type) ==
    [name |-> "open", action |-> "ByPosition", type |-> type, narrow |-> "node",
     intermediate |-> intermediate, endpoint |-> endpoint]

OpenOps == {OpenOp(i, e, type) : i \in Policies, e \in Policies, type \in {"Directory", "File"}}

\* Variant: the endpoint policy is applied at every position.
open_policy_endpoint(op, position) == op.endpoint

\* The policy for a missing segment: the intermediate one when more components
\* remain, the endpoint one for the last.
open_policy(op, position) == IF position = "Parent" THEN op.intermediate ELSE op.endpoint

OpenPaths == {raw \in RawPaths : ~raw.prefix /\ ~raw.abs /\ \A i \in 1..Len(raw.segs) : raw.segs[i] \in Names}

OpenCall(t, start, raw, op) ==
    /\ tasks[t].pc = "idle"
    /\ start \in StartHandles(t)
    /\ "CreateDefault" \in {op.intermediate, op.endpoint} =>
           Cardinality(FreeIds(nodes)) >= Normals(Components(raw), 1)
    /\ Update(t, [pc |-> "loop", op |-> op, start |-> start, path |-> Components(raw),
                  pos |-> 1, current |-> start, new |-> NoNode, result |-> Pending,
                  made |-> {}], nodes)
    /\ UNCHANGED <<fs, node_lock, children_lock, query_vars>>

\* get_named under two policies: a found node is returned, a miss is handed
\* to the policy of its position.
OpenChildGet(t) ==
    LET T == tasks[t]
        d == T.current
        found == get_child(nodes, d, T.path[T.pos - 1].name)
        policy == open_policy(T.op, GetPosition(T))
    IN
    /\ T.pc = "get_child_read"
    /\ children_lock' = [children_lock EXCEPT ![d].readers = @ \ {t}]
    /\ node_lock' = [node_lock EXCEPT ![d] = @ \ {t}]
    /\ IF found # NoNode
       THEN Update(t, [T EXCEPT !.pc = "loop", !.current = found], nodes)
       ELSE IF policy = "CreateDefault"
       THEN Update(t, [T EXCEPT !.pc = "get_action"], nodes)
       ELSE IF get_action(policy, GetPosition(T)).tag = "None"
       THEN Update(t, [T EXCEPT !.pc = "loop", !.current = NoNode], nodes)
       ELSE Finish(t, get_action(policy, GetPosition(T)))
    /\ UNCHANGED <<fs, query_vars>>

\* The steps of a resolution of named segments under two policies.
OpenWalk(t) ==
    \/ LoopEnd(t)
    \/ LoopNone(t)
    \/ LoopFile(t)
    \/ LoopNormal(t)
    \/ GetChildRead(t)
    \/ OpenChildGet(t)
    \/ GetActionCreate(t)
    \/ GetActionWrite(t)
    \/ GetActionInsert(t)

OpenNext ==
    \/ \E start \in NodeIds, raw \in OpenPaths, op \in OpenOps : OpenCall(Caller, start, raw, op)
    \/ OpenWalk(Caller)
    \/ \E keep \in NodeIds \cup {NoNode} : Release(Caller, keep)

SpecOpen == Init /\ [][OpenNext]_vars

\* ------------------------------------------------ paths of orphaned nodes
\* One caller that creates children, keeps handles, drops the FileSystem and
\* asks the directories it holds for their paths.
PathNext ==
    \/ \E start \in NodeIds, raw \in CreatePaths, op \in CreateOps :
          QIdle(Caller) /\ Call(Caller, start, raw, op)
    \/ CreateWalk(Caller)
    \/ \E keep \in NodeIds \cup {NoNode} : QIdle(Caller) /\ Release(Caller, keep)
    \/ Quiet /\ QIdle(Caller) /\ DropFs
    \/ \E n \in NodeIds : PathCall(Caller, n)
    \/ PathStep(Caller)
    \/ QueryReturn(Caller)

SpecPath == Init /\ [][PathNext]_vars

\* C1: at-most-once child creation. Every create-on-demand resolution of one
\* name n from a directory d that returned a node returned the entry of d's
\* children map under n, whatever other resolutions of n ran beside it; and
\* every constructed node is either still private to the task constructing it
\* or is the entry of its parent's map, so that no caller holds a duplicate.
C1_AtMostOnceCreation ==
    /\ \A t \in Tasks :
          LET T == tasks[t] IN
          (Created(T) /\ Len(T.path) = 1 /\ T.path[1].kind = "Normal")
              => nodes[T.start].children[T.path[1].name] = T.result.node
    /\ \A n \in NodeIds :
          (/\ nodes[n].kind \in {"Directory", "File"}
           /\ nodes[n].parent # NoParent
           /\ nodes[nodes[n].parent.ref].kind = "Directory"
           /\ \A t \in Tasks : tasks[t].new # n)
              => nodes[nodes[n].parent.ref].children[nodes[n].parent.name] = n

\* C1 witness: one caller has returned the node it inserted under n, while a
\* second caller of the same (d, n) holds the map's write lock with a node of
\* its own constructed.
C1_Witness ==
    \E t \in Tasks, u \in Tasks :
        /\ t # u
        /\ Created(tasks[t])
        /\ tasks[u].pc = "get_action_write"
        /\ tasks[u].current = tasks[t].start
        /\ tasks[t].path = tasks[u].path
        /\ Len(tasks[t].path) = 1
        /\ tasks[u].new # NoNode
        /\ tasks[u].new # tasks[t].result.node
        /\ nodes[tasks[t].start].children[tasks[t].path[1].name] = tasks[t].result.node

RoundTrip(T) ==
    /\ get_none(nodes, T.start, T.path, 1) = OkSome(T.result.node)
    /\ \A k \in 0..(Len(T.path) - 1) :
          LET r == get_none(nodes, T.start, SubSeq(T.path, 1, k), 1)
          IN  r.tag = "Some" /\ nodes[r.node].kind = "Directory"

\* C2 as stated: once a create-on-demand resolution of p from d has returned X,
\* a read-only resolution of p from d returns Some(X) in every later state, and
\* every proper prefix of p resolves to a directory.
C2_RoundTripAlways == \A t \in Tasks : Created(tasks[t]) => RoundTrip(tasks[t])

\* C2 amended: the round trip holds in every later state in which the
\* FileSystem is still held, and after its drop for every p without a `..`.
C2_RoundTrip ==
    \A t \in Tasks :
        (Created(tasks[t]) /\ (fs \/ ~HasParentDir(tasks[t].path))) => RoundTrip(tasks[t])

\* C2 witness: a two-segment path was created and returned.
C2_Witness ==
    \E t \in Tasks :
        /\ Created(tasks[t])
        /\ Len(tasks[t].path) >= 2
        /\ NormalOnly(tasks[t].path)
        /\ RoundTrip(tasks[t])

\* C3: a node constructed for a missing segment is a Directory when another
\* component follows the segment, and of the requested kind when none does.
C3_CreatedKind ==
    \A t \in Tasks :
        LET T == tasks[t] IN
        T.new # NoNode =>
            /\ nodes[T.new].kind = (IF T.pos <= Len(T.path) THEN "Directory" ELSE T.op.type)
            /\ nodes[T.new].parent = [name |-> T.path[T.pos - 1].name, ref |-> T.current]

\* C3 witness: get_file_default builds an intermediate segment as a Directory.
C3_Witness ==
    \E t \in Tasks :
        /\ tasks[t].new # NoNode
        /\ tasks[t].pos <= Len(tasks[t].path)
        /\ tasks[t].op.type = "File"
        /\ nodes[tasks[t].new].kind = "Directory"

\* C4: when the walk of get_file / get_file_default ends at a Directory the call
\* returns UnexpectedDirectory, when the walk of get_dir / get_dir_default ends
\* at a File it returns UnexpectedFile, and the tree is left as it was.
C4_TypeMismatch ==
    [][\A t \in Tasks :
          LET T == tasks[t] IN
          (T.pc = "loop" /\ Moved(t) /\ T.pos > Len(T.path) /\ T.current # NoNode)
          => /\ (T.op.name \in {"get_file", "get_file_default"}
                    /\ nodes[T.current].kind = "Directory")
                 => (tasks'[t].result = Err("GetFileError::UnexpectedDirectory") /\ nodes' = nodes)
             /\ (T.op.name \in {"get_dir", "get_dir_default"}
                    /\ nodes[T.current].kind = "File")
                 => (tasks'[t].result = Err("GetDirError::UnexpectedFile") /\ nodes' = nodes)]_vars

\* C4 witness: get_file_default has returned UnexpectedDirectory.
C4_Witness ==
    \E t \in Tasks :
        /\ tasks[t].pc = "done"
        /\ tasks[t].op.name = "get_file_default"
        /\ tasks[t].result = Err("GetFileError::UnexpectedDirectory")

\* C5: a `..` component at a directory that has no parent edge, or whose parent
\* has been destroyed, ends the resolution with UnexpectedOrphan under every
\* policy.
C5_OrphanParent ==
    [][\A t \in Tasks :
          LET T == tasks[t] IN
          (/\ T.pc = "get_parent"
           /\ Moved(t)
           /\ \/ nodes[T.current].parent = NoParent
              \/ nodes[nodes[T.current].parent.ref].kind # "Directory")
          => (tasks'[t].pc = "done" /\ tasks'[t].result = Err("UnexpectedOrphan"))]_vars

\* C5 witness: a create-on-demand resolution from the root ended with
\* UnexpectedOrphan.
C5_Witness ==
    \E t \in Tasks :
        /\ tasks[t].pc = "done"
        /\ tasks[t].op.name \in CreateNames
        /\ nodes[tasks[t].start].parent = NoParent
        /\ tasks[t].result = Err("UnexpectedOrphan")

\* C6 as stated: a `/` component keeps the current node when the directory has
\* no parent edge (the root), and otherwise ends the resolution with
\* UnexpectedRoot, creating nothing.
C6_RootComponent ==
    [][\A t \in Tasks :
          LET T == tasks[t] IN
          (T.pc = "get_root" /\ Moved(t))
          => IF nodes[T.current].parent = NoParent
             THEN tasks'[t].pc = "loop" /\ tasks'[t].current = T.current
             ELSE /\ tasks'[t].pc = "done"
                  /\ tasks'[t].result = Err("UnexpectedRoot")
                  /\ nodes' = nodes]_vars

\* C7: a walk that stands on a File with a component left ends with
\* UnexpectedFile under every policy and leaves the tree as it was; a File the
\* last component reached is the result of an untyped resolution.
C7_FileInWalk ==
    [][\A t \in Tasks :
          LET T == tasks[t] IN
          (T.pc = "loop" /\ Moved(t) /\ T.current # NoNode /\ nodes[T.current].kind = "File")
          => IF T.pos <= Len(T.path)
             THEN /\ tasks'[t].pc = "done"
                  /\ tasks'[t].result = Err("UnexpectedFile")
                  /\ nodes' = nodes
             ELSE T.op.narrow = "node" => tasks'[t].result = OkSome(T.current)]_vars

\* C7 witness: a create-on-demand resolution met a File before its last
\* component and returned UnexpectedFile.
C7_Witness ==
    \E t \in Tasks :
        /\ tasks[t].pc = "done"
        /\ tasks[t].op.name \in CreateNames
        /\ tasks[t].pos <= Len(tasks[t].path)
        /\ tasks[t].result = Err("UnexpectedFile")

\* C8: under get / get_dir / get_file a missing named segment, intermediate or
\* final, makes the current node None without an error, and a walk whose
\* current node is None returns Ok(None) without taking another component.
C8_ReturnNone ==
    [][\A t \in Tasks :
          LET T == tasks[t] IN
          /\ (/\ T.pc = "get_child_read"
              /\ Moved(t)
              /\ T.op.name \in ReadOnlyNames
              /\ nodes[T.current].children[T.path[T.pos - 1].name] = NoNode)
             => (tasks'[t].pc = "loop" /\ tasks'[t].current = NoNode /\ tasks'[t].pos = T.pos)
          /\ (T.pc = "loop" /\ Moved(t) /\ T.op.name \in ReadOnlyNames /\ T.current = NoNode)
             => (tasks'[t].pc = "done" /\ tasks'[t].result = OkNone /\ tasks'[t].pos = T.pos)]_vars

\* C8 witness: a read-only resolution of a missing segment followed by `..`
\* returned Ok(None) with the `..` not taken.
C8_Witness ==
    \E t \in Tasks :
        /\ tasks[t].pc = "done"
        /\ tasks[t].op.name \in ReadOnlyNames
        /\ tasks[t].result = OkNone
        /\ tasks[t].pos = 2
        /\ Len(tasks[t].path) = 2
        /\ tasks[t].path[2].kind = "ParentDir"

\* C9: no step of get / get_dir / get_file, from its call to its return and
\* whatever it returns, changes a children map, a name, a parent edge or a
\* payload.
C9_ReadOnlyFrame ==
    [][\A t \in Tasks :
          (Moved(t) /\ tasks'[t].pc # "idle" /\ tasks'[t].op.name \in ReadOnlyNames)
          => nodes' = nodes]_vars

\* C9 witness: a read-only resolution returned an error on a tree with nodes.
C9_Witness ==
    \E t \in Tasks :
        /\ tasks[t].pc = "done"
        /\ tasks[t].op.name \in ReadOnlyNames
        /\ tasks[t].result.tag = "Err"
        /\ \E n \in NodeIds : nodes[n].kind = "File"

\* C10: under ReturnError a missing named segment that another component
\* follows ends the resolution with IntermediateNotFound, and a missing last
\* segment ends it with EndpointNotFound.
C10_ReturnError ==
    [][\A t \in Tasks :
          LET T == tasks[t] IN
          (/\ T.pc = "get_child_read"
           /\ Moved(t)
           /\ T.op.action = "ReturnError"
           /\ nodes[T.current].children[T.path[T.pos - 1].name] = NoNode)
          => /\ tasks'[t].pc = "done"
             /\ tasks'[t].result =
                    Err(IF T.pos <= Len(T.path) THEN "IntermediateNotFound" ELSE "EndpointNotFound")
             /\ nodes' = nodes]_vars

\* C10 witness: a resolution under ReturnError returned IntermediateNotFound.
C10_Witness ==
    \E t \in Tasks :
        /\ tasks[t].pc = "done"
        /\ tasks[t].op.action = "ReturnError"
        /\ tasks[t].result = Err("IntermediateNotFound")

\* A tree as FileSystem::new leaves it: the FileSystem is held and no other node
\* is allocated.
Fresh == fs /\ \A n \in NodeIds \ {RootId} : nodes[n].kind = "Free"

\* C11: on a freshly constructed tree the root is a root, has no parent and no
\* name, and count, count_dir and count_file are 0.
C11_FreshRoot ==
    Fresh =>
        /\ is_root(nodes, RootId)
        /\ parent(nodes, RootId) = NoNode
        /\ name(nodes, RootId) = NoName
        /\ count(nodes, RootId) = 0
        /\ count_dir(nodes, RootId) = 0
        /\ count_file(nodes, RootId) = 0

\* C11 witness: a fresh tree has been asked for a directory and had none.
C11_Witness ==
    /\ Fresh
    /\ \E t \in Tasks :
          tasks[t].pc = "done" /\ tasks[t].op.name = "get_dir" /\ tasks[t].result = OkNone

Parentless == {n \in NodeIds : nodes[n].kind = "Directory" /\ nodes[n].parent = NoParent}

\* A resolution constructs a node with the edge (name, weak reference to the
\* directory constructing it), and no step changes the edge of a node.
EdgesKept ==
    /\ \A t \in Tasks :
          (tasks[t].new = NoNode /\ tasks'[t].new # NoNode)
          => nodes'[tasks'[t].new].parent =
                 [name |-> tasks[t].path[tasks[t].pos - 1].name, ref |-> tasks[t].current]
    /\ \A n \in NodeIds :
          (Alive(n) /\ nodes'[n].kind \in {"Directory", "File"})
          => nodes'[n].parent = nodes[n].parent

\* C12 as stated: in every reachable state in which a node of the tree exists,
\* exactly one directory has no parent edge, the root created by
\* FileSystem::new, and every node a resolution creates has an edge to the
\* directory that created it.
C12_ExactlyOneRoot ==
    /\ []((\E n \in NodeIds : Alive(n)) => Parentless = {RootId})
    /\ [][EdgesKept]_vars

\* C12 amended: at most one directory has no parent edge, the root created by
\* FileSystem::new, and exactly one while the FileSystem is held; every node a
\* resolution creates has an edge to the directory that created it.
C12_AtMostOneRoot ==
    /\ [](Parentless \subseteq {RootId} /\ (fs => Parentless = {RootId}))
    /\ [][EdgesKept]_vars

\* C12 witness: a created directory and a created file stand beside the root.
C12_Witness ==
    /\ Parentless = {RootId}
    /\ \E n \in NodeIds, m \in NodeIds :
          /\ nodes[n].kind = "Directory" /\ nodes[n].parent.ref = RootId
          /\ nodes[m].kind = "File" /\ nodes[m].parent.ref = n

\* C13 as stated: is_root() is true exactly for a node without a parent edge,
\* also when the node's containing directory has been destroyed.
C13_IsRootIffNoEdge ==
    \A n \in NodeIds : Alive(n) => (is_root(nodes, n) <=> nodes[n].parent = NoParent)

\* C14: every entry n -> c of a live directory d has name() = n and
\* parent() = d, and `n/..` from d returns d when c is a directory.
C14_NameParent ==
    \A d \in NodeIds : \A x \in Names :
        LET c == nodes[d].children[x] IN
        (nodes[d].kind = "Directory" /\ c # NoNode)
        => /\ name(nodes, c) = x
           /\ parent(nodes, c) = d
           /\ nodes[c].kind = "Directory"
                  => get_none(nodes, d, <<Comp("Normal", x), Comp("ParentDir", "")>>, 1) = OkSome(d)

\* C14 witness: a directory below the root has a child directory.
C14_Witness ==
    \E d \in NodeIds \ {RootId} : \E x \in Names :
        /\ nodes[d].kind = "Directory"
        /\ nodes[d].children[x] # NoNode
        /\ nodes[nodes[d].children[x]].kind = "Directory"
        /\ parent(nodes, nodes[d].children[x]) = d

AbsoluteNames(p) ==
    /\ Len(p) >= 1
    /\ p[1].kind = "RootDir"
    /\ \A i \in 2..Len(p) : p[i].kind = "Normal"

\* C17: a node that a resolution of the absolute path /n1/.../nk from the root
\* returned reports that path, resolving the reported path from the root
\* returns the node, and the root reports `/`.
C17_PathInverse ==
    /\ \A t \in Tasks :
          LET T == tasks[t] IN
          (/\ T.pc = "done"
           /\ T.result.tag = "Some"
           /\ T.start = RootId
           /\ nodes[RootId].parent = NoParent
           /\ AbsoluteNames(T.path))
          => /\ path(nodes, T.result.node) = T.path
             /\ get_none(nodes, RootId, path(nodes, T.result.node), 1) = OkSome(T.result.node)
    /\ (nodes[RootId].kind = "Directory" /\ nodes[RootId].parent = NoParent)
          => path(nodes, RootId) = <<Comp("RootDir", "")>>

\* C17 witness: get_file_default of a two-name absolute path returned a File
\* that reports the path.
C17_Witness ==
    \E t \in Tasks :
        /\ tasks[t].pc = "done"
        /\ tasks[t].op.name = "get_file_default"
        /\ tasks[t].result.tag = "Some"
        /\ tasks[t].start = RootId
        /\ AbsoluteNames(tasks[t].path)
        /\ Len(tasks[t].path) = 3
        /\ path(nodes, tasks[t].result.node) = tasks[t].path

\* The nodes a strong reference keeps: the handles and, from them, the entries
\* of the children maps.
RECURSIVE StronglyHeld(_)
StronglyHeld(S) ==
    LET next == S \cup ({nodes[p[1]].children[p[2]] : p \in S \X Names} \ {NoNode})
    IN  IF next = S THEN S ELSE StronglyHeld(next)

Held == StronglyHeld(Roots(fs, tasks))

\* C19: a parent edge keeps no directory alive. For a held node whose parent
\* directory no strong reference keeps, parent() is None, and `..` from it, when
\* it is a directory, is UnexpectedOrphan.
C19_NoDanglingParent ==
    \A n \in Held :
        (nodes[n].parent # NoParent /\ nodes[n].parent.ref \notin Held)
        => /\ parent(nodes, n) = NoNode
           /\ nodes[n].kind = "Directory"
                  => get_none(nodes, n, <<Comp("ParentDir", "")>>, 1) = Err("UnexpectedOrphan")

\* C19 witness: with the FileSystem dropped, `..` from a still-held
\* sub-directory returned UnexpectedOrphan.
C19_Witness ==
    \E t \in Tasks :
        /\ ~fs
        /\ tasks[t].pc = "done"
        /\ nodes[tasks[t].start].parent # NoParent
        /\ nodes[tasks[t].start].parent.ref \notin Held
        /\ tasks[t].path = <<Comp("ParentDir", "")>>
        /\ tasks[t].result = Err("UnexpectedOrphan")

\* An entry a call made is in place: the node is a Directory, the entry of the
\* directory that created it, its child by parent(), and found by name.
InPlace(ns, m) ==
    /\ ns[m.dir].kind = "Directory"
    /\ ns[m.dir].children[m.name] = m.id
    /\ ns[m.id].kind = "Directory"
    /\ parent(ns, m.id) = m.dir
    /\ get_none(ns, m.dir, <<Comp("Normal", m.name)>>, 1) = OkSome(m.id)

Failed(T) == T.pc = "done" /\ T.op.name \in CreateNames /\ T.result.tag = "Err"

Deadlocked == (\E t \in Tasks : Busy(t)) /\ \A t \in Tasks : Busy(t) => ~ENABLED TaskStep(t)

\* C20: with resolutions walking down and up, count queries and payload reads
\* and writes running beside one another, no reachable state is a deadlock,
\* and under fair scheduling of the tasks and locks every operation returns.
C20_DeadlockFree ==
    /\ []~Deadlocked
    /\ \A t \in Tasks : Busy(t) ~> ~Busy(t)

\* C20 witness: one caller waits for the write lock of a children map that the
\* other caller's count query holds for reading.
C20_Witness ==
    \E t \in Tasks, u \in Tasks :
        /\ tasks[t].pc = "get_action_new"
        /\ queries[u].pc = "count_read"
        /\ queries[u].node = tasks[t].current
        /\ ~ENABLED GetActionWrite(t)

\* The value the last completed write left in the cell of n.
LastWritten(n) == IF writes[n] = <<>> THEN DefaultValue ELSE writes[n][Len(writes[n])].value

ReadReturns(u) == queries[u].pc = "value_reading" /\ queries'[u].pc = "returned"

\* C15: a node under construction holds the default payload, and a read
\* returns the value the last completed write left, whichever caller wrote it
\* and through whichever handle the reader reached the node.
C15_SharedPayload ==
    /\ [](\A t \in Tasks : tasks[t].new # NoNode => nodes[tasks[t].new].value = DefaultValue)
    /\ [][\A u \in Tasks : ReadReturns(u) => queries'[u].seen = LastWritten(queries[u].node)]_vars

\* C15 witness: a caller that found the node with a read-only resolution read
\* the value another caller wrote.
C15_Witness ==
    \E u \in Tasks :
        LET q == queries[u] IN
        /\ q.pc = "returned"
        /\ q.kind = "read"
        /\ tasks[u].pc = "done"
        /\ tasks[u].op.name = "get"
        /\ tasks[u].result = OkSome(q.node)
        /\ writes[q.node] # <<>>
        /\ writes[q.node][Len(writes[q.node])].task # u
        /\ q.seen = LastWritten(q.node)
        /\ q.seen # DefaultValue

\* The closures of a sequence of writes applied one after another.
RECURSIVE ApplyAll(_, _)
ApplyAll(log, v) == IF log = <<>> THEN v ELSE ApplyAll(Tail(log), Apply(Head(log).f, v))

\* C16: the value of a cell is the closures of all completed writes applied one
\* after another in the order the writes were stored, with none lost, and a
\* read returns the value of the writes completed when it holds the guard.
C16_SerializedWrites ==
    /\ [](\A n \in NodeIds : Alive(n) => nodes[n].value = ApplyAll(writes[n], DefaultValue))
    /\ [][\A u \in Tasks :
             ReadReturns(u) => queries'[u].seen = ApplyAll(writes[queries[u].node], DefaultValue)]_vars

\* C16 witness: one caller's write to a cell is complete, another caller holds
\* the write guard with a different closure loaded, and the first caller waits
\* for the read guard.
C16_Witness ==
    \E t \in Tasks, u \in Tasks, n \in NodeIds :
        /\ t # u
        /\ Len(writes[n]) = 1
        /\ writes[n][1].task = t
        /\ queries[u].pc = "value_loaded"
        /\ queries[u].node = n
        /\ queries[u].f # writes[n][1].f
        /\ queries[t].pc = "value_read"
        /\ queries[t].node = n
        /\ ~can_read(value_lock[n])

\* The nodes of which a task holds a lock: the node's own lock, the lock of
\* its children map or the lock of its payload cell.
LockedNodes(t) ==
    {n \in NodeIds :
        \/ t \in node_lock[n]
        \/ t \in children_lock[n].readers
        \/ children_lock[n].writer = t
        \/ t \in value_lock[n].readers
        \/ value_lock[n].writer = t}

\* The node whose lock a task acquires or waits for next.
Wanted(t) ==
    LET T == tasks[t]
        q == queries[t]
    IN  IF T.pc \in {"get_child", "get_action", "get_action_new"} THEN {T.current}
        ELSE IF T.pc = "loop" /\ T.pos <= Len(T.path) /\ T.current # NoNode
                /\ T.path[T.pos].kind \in {"RootDir", "ParentDir", "Normal"} THEN {T.current}
        ELSE IF q.pc \in {"data", "value_read", "value_write", "count", "count_children",
                          "path", "path_parent"} THEN {q.node}
        ELSE {}

\* C21: all locks a task holds belong to one node, and the lock it acquires or
\* waits for next belongs to that node too.
C21_OneNodeAtATime ==
    \A t \in Tasks : Cardinality(LockedNodes(t) \cup Wanted(t)) <= 1

\* C21 witness: a task holds the read guard of a directory, has built a new
\* node and waits for the write lock of that directory's children map, which
\* another task holds for reading.
C21_Witness ==
    \E t \in Tasks, u \in Tasks :
        /\ t # u
        /\ tasks[t].pc = "get_action_new"
        /\ LockedNodes(t) = {tasks[t].current}
        /\ u \in children_lock[tasks[t].current].readers
        /\ ~ENABLED GetActionWrite(t)

\* Unique names and name / parent consistency: an entry of a children map is a
\* live node whose parent edge is that directory under that name, and a live
\* node that is no longer private to the call building it is the entry of its
\* directory under its name while that directory lives.
TreeConsistent ==
    /\ \A d \in NodeIds : \A x \in Names :
          LET c == nodes[d].children[x] IN
          (nodes[d].kind = "Directory" /\ c # NoNode)
          => Alive(c) /\ nodes[c].parent = [name |-> x, ref |-> d]
    /\ \A n \in NodeIds :
          (/\ Alive(n)
           /\ nodes[n].parent # NoParent
           /\ nodes[nodes[n].parent.ref].kind = "Directory"
           /\ \A t \in Tasks : tasks[t].new # n)
          => nodes[nodes[n].parent.ref].children[nodes[n].parent.name] = n

\* C22: whenever a task is cancelled at an await of a resolution, it holds no
\* lock afterwards, names stay unique and consistent with the parent edges,
\* the root stays the only directory without a parent, no state is a deadlock
\* and every call of every task ends.
C22_CancellationSafe ==
    /\ [](\A t \in Tasks : ~Busy(t) => LockedNodes(t) = {})
    /\ [](TreeConsistent /\ Parentless = {RootId})
    /\ []~Deadlocked
    /\ \A t \in Tasks : Busy(t) ~> ~Busy(t)

\* C22 witness: a task was cancelled between building a new child and taking
\* the write lock of the children map, and the other task has since created
\* and got a node of that directory.
C22_Witness ==
    \E t \in Tasks, u \in Tasks :
        /\ t # u
        /\ tasks[t].result = Cancelled("get_action_new")
        /\ LockedNodes(t) = {}
        /\ Created(tasks[u])
        /\ \E m \in tasks[u].made : m.dir = tasks[t].start /\ m.id = tasks[u].result.node

\* The call of t returns an error with this step.
Fails(t) == tasks[t].pc \notin {"idle", "done"} /\ tasks'[t].pc = "done" /\ tasks'[t].result.tag = "Err"

\* The components a call had taken when it stopped at `current`.
Taken(T) == SubSeq(T.path, 1, IF T.pc = "loop" THEN T.pos - 1 ELSE T.pos - 2)

\* Every path that resolves to a node from a live node s in ns resolves to the
\* same node from s in ms.
Preserved(ns, ms) ==
    \A s \in NodeIds : \A raw \in RawPaths :
        LET r == get_none(ns, s, Components(raw), 1) IN
        (ns[s].kind = "Directory" /\ ms[s].kind = "Directory" /\ r.tag = "Some")
        => get_none(ms, s, Components(raw), 1) = r

\* C23: a call that has returned an error holds no lock; no step of a call,
\* the one that returns the error included, changes the node a path resolves
\* to; and in the state the error is returned in, the components the call had
\* taken resolve from its start to the node it stopped at, with the tree
\* consistent.
C23_UsableAfterError ==
    /\ [](\A t \in Tasks :
             (tasks[t].pc = "done" /\ tasks[t].result.tag = "Err") => LockedNodes(t) = {})
    /\ [][\A t \in Tasks :
             (Moved(t) /\ tasks[t].pc \notin {"idle", "done"}) => Preserved(nodes, nodes')]_vars
    /\ [][\A t \in Tasks :
             Fails(t) => /\ get_none(nodes', tasks[t].start, Taken(tasks[t]), 1)
                             = OkSome(tasks[t].current)
                         /\ TreeConsistent']_vars

\* C23 witness: a create-on-demand call stopped at a file with UnexpectedFile,
\* the file still resolves from the directory the call started on, and the
\* caller holds no lock.
C23_Witness ==
    \E t \in Tasks :
        LET T == tasks[t] IN
        /\ Failed(T)
        /\ T.result = Err("UnexpectedFile")
        /\ T.path[1].kind = "Normal"
        /\ get_none(nodes, T.start, <<T.path[1]>>, 1).tag = "Some"
        /\ nodes[get_none(nodes, T.start, <<T.path[1]>>, 1).node].kind = "File"
        /\ LockedNodes(t) = {}

\* The callers that put a new entry into the children map of d with this step.
Inserting(d) ==
    {t \in Tasks : tasks[t].pc = "get_action_write" /\ tasks[t].current = d
                   /\ tasks'[t].made # tasks[t].made}

\* C24: create-on-demand calls for different names in one directory running
\* beside one another both return, each entry a call made stays in the map
\* under its name beside the other's, each call returns the node it put under
\* its own name, and count() of the directory grows by one with each insert
\* and with nothing else.
C24_DifferentNames ==
    /\ [](\A t \in Tasks : \A m \in tasks[t].made :
             nodes[m.dir].kind = "Directory" => nodes[m.dir].children[m.name] = m.id)
    /\ [](\A t \in Tasks : \A m \in tasks[t].made :
             tasks[t].pc = "done"
             => /\ tasks[t].result = OkSome(m.id)
                /\ m.dir = tasks[t].start
                /\ m.name = tasks[t].path[1].name)
    /\ [][\A d \in NodeIds :
             (nodes[d].kind = "Directory" /\ nodes'[d].kind = "Directory")
             => count(nodes', d) = count(nodes, d) + Cardinality(Inserting(d))]_vars
    /\ \A t \in Tasks : Busy(t) ~> ~Busy(t)

\* C24 witness: one caller has built its node and waits to insert it, the other
\* built its node for a different name of the same directory later, has
\* inserted it and returned, and a count has seen that one entry.
C24_Witness ==
    \E t \in Tasks, u \in Tasks :
        /\ t # u
        /\ tasks[t].pc = "get_action_new"
        /\ tasks[u].pc = "done"
        /\ \E k \in tasks[u].made :
              /\ k.dir = tasks[t].current
              /\ k.name # tasks[t].path[1].name
              /\ tasks[t].new < k.id
              /\ tasks[u].result = OkSome(k.id)
              /\ queries[u].pc = "returned"
              /\ queries[u].kind = "count"
              /\ queries[u].node = k.dir
              /\ queries[u].seen = 1

\* ------------------------------------------------------------------ C25
\* The repeated call has built no node, has put nothing into a children map,
\* and returns what the first call returned.
SameAsFirst ==
    LET T == tasks[Second] IN
    /\ T.made = {}
    /\ T.new = NoNode
    /\ T.pc = "done" => T.result = tasks[First].result

\* A step of the repeated call leaves every children map, and so every count,
\* as it was.
MapsKept ==
    (tasks[Second].pc # "idle" /\ Moved(Second)) =>
        \A n \in NodeIds :
            /\ nodes'[n] = nodes[n]
            /\ nodes[n].kind = "Directory" => count(nodes', n) = count(nodes, n)

\* C25 as stated: a create-on-demand call that repeats an earlier successful
\* call of the same kind, with the same path on the same directory, returns the
\* node the first call returned, builds no second node and leaves every
\* children map unchanged, whenever it is made.
C25_IdempotentAlways == tasks[Second].pc # "idle" => SameAsFirst

\* C25 amended: the repeated call returns the first call's node, builds no
\* second node and leaves every children map and count unchanged, when the
\* FileSystem is still held or the path has no `..` component.
C25_Idempotent ==
    /\ [](\/ tasks[Second].pc = "idle"
          \/ ~fs /\ HasParentDir(tasks[Second].path)
          \/ SameAsFirst)
    /\ [][MapsKept]_vars

\* C25 witness: the first call created both segments of its path, and the
\* repeated call has returned the same node having made nothing.
C25_Witness ==
    /\ Created(tasks[First]) /\ Created(tasks[Second])
    /\ Cardinality(tasks[First].made) = 1
    /\ HasParentDir(tasks[First].path)
    /\ tasks[Second].result = tasks[First].result
    /\ tasks[Second].made = {}

\* ------------------------------------------------------------------ C26
\* The entries of directory d in the tree ns, and those of one kind.
Entries(ns, d) == {x \in Names : ns[d].children[x] # NoNode}

EntriesOf(ns, d, kind) == {x \in Entries(ns, d) : ns[ns[d].children[x]].kind = kind}

\* The entries of d that the calls under way or just returned have made.
MadeIn(d) == {m \in UNION {tasks[t].made : t \in Tasks} : m.dir = d}

\* What the three queries compute on one children map.
CountsAgree ==
    \A d \in NodeIds :
        nodes[d].kind = "Directory" =>
            /\ count(nodes, d) = Cardinality(Entries(nodes, d))
            /\ count_dir(nodes, d) = Cardinality(EntriesOf(nodes, d, "Directory"))
            /\ count_file(nodes, d) = Cardinality(EntriesOf(nodes, d, "File"))
            /\ count(nodes, d) = count_dir(nodes, d) + count_file(nodes, d)

\* A query returns the number of entries, of its kind, of the map it read.
CountReturned ==
    \A t \in Tasks :
        (queries[t].pc = "count_read" /\ queries'[t].pc = "returned") =>
            LET d == queries[t].node IN
            queries'[t].seen =
                IF queries[t].kind = "count" THEN Cardinality(Entries(nodes, d))
                ELSE IF queries[t].kind = "count_dir"
                THEN Cardinality(EntriesOf(nodes, d, "Directory"))
                ELSE Cardinality(EntriesOf(nodes, d, "File"))

\* A new directory is empty, and each entry a call makes adds one to count().
CountGrows ==
    \A d \in NodeIds :
        nodes'[d].kind = "Directory" =>
            count(nodes', d) =
                (IF nodes[d].kind = "Directory" THEN count(nodes, d) ELSE 0)
                + Cardinality({m \in UNION {tasks'[t].made \ tasks[t].made : t \in Tasks} :
                                  m.dir = d})

\* C26: count() is the number of entries of the children map, count_dir() and
\* count_file() the numbers of its Directory and File entries, so that
\* count() = count_dir() + count_file() on one map; after k distinct names were
\* created in an empty directory count() = k.
C26_Counts ==
    /\ [](CountsAgree)
    /\ [][CountReturned /\ CountGrows]_vars
    /\ [](\A d \in NodeIds :
              (nodes[d].kind = "Directory"
               /\ \A x \in Entries(nodes, d) : \E m \in MadeIn(d) : m.name = x) =>
                  count(nodes, d) = Cardinality(MadeIn(d)))

\* C26 witness: a directory and a file were created in the empty root, and a
\* count_file() query on the root has returned 1.
C26_Witness ==
    /\ Cardinality(MadeIn(RootId)) = 2
    /\ count(nodes, RootId) = 2
    /\ count_dir(nodes, RootId) = 1
    /\ \E t \in Tasks :
          /\ queries[t].pc = "returned"
          /\ queries[t].kind = "count_file"
          /\ queries[t].node = RootId
          /\ queries[t].seen = 1

\* ------------------------------------------------------------------ C27
\* The policy the claim names for the segment just missed.
PolicyAt(T) == IF T.pos <= Len(T.path) THEN T.op.intermediate ELSE T.op.endpoint

\* What a miss leads to under each policy.
MissHandled(t) ==
    LET T == tasks[t] IN
    (/\ T.pc = "get_child_read"
     /\ Moved(t)
     /\ T.op.name = "open"
     /\ nodes[T.current].children[T.path[T.pos - 1].name] = NoNode)
    => /\ PolicyAt(T) = "CreateDefault" => tasks'[t].pc = "get_action"
       /\ PolicyAt(T) = "ReturnNone" =>
              /\ tasks'[t].pc = "loop" /\ tasks'[t].current = NoNode
              /\ nodes' = nodes
       /\ PolicyAt(T) = "ReturnError" =>
              /\ tasks'[t].pc = "done"
              /\ tasks'[t].result =
                     Err(IF T.pos <= Len(T.path) THEN "IntermediateNotFound"
                         ELSE "EndpointNotFound")
              /\ nodes' = nodes

\* C27: a missing non-final segment is handled by the intermediate policy
\* alone and a missing final segment by the endpoint policy alone, for all
\* 3 x 3 combinations; with intermediate = ReturnNone a missing intermediate
\* segment yields None and creates nothing whatever the endpoint policy is.
C27_IndependentPolicies ==
    /\ [][\A t \in Tasks : MissHandled(t)]_vars
    /\ [](\A t \in Tasks :
             LET T == tasks[t] IN
             (/\ T.pc = "done" /\ T.op.name = "open"
              /\ T.op.intermediate = "ReturnNone"
              /\ Len(T.path) = 2
              /\ nodes[T.start].children[T.path[1].name] = NoNode)
             => T.result = OkNone /\ T.made = {})

\* C27 witness: under intermediate = ReturnNone and endpoint = CreateDefault a
\* two-segment path whose first segment is missing has returned None, with
\* room left for the nodes it did not create.
C27_Witness ==
    \E t \in Tasks :
        LET T == tasks[t] IN
        /\ T.pc = "done" /\ T.op.name = "open"
        /\ T.op.intermediate = "ReturnNone" /\ T.op.endpoint = "CreateDefault"
        /\ Len(T.path) = 2
        /\ nodes[T.start].children[T.path[1].name] = NoNode
        /\ T.result = OkNone
        /\ Cardinality(FreeIds(nodes)) >= 2

\* ------------------------------------------------------------------ C28
\* The walk is about to take a `..` component at a node whose parent is alive.
AtParentDir(T) ==
    /\ T.pc = "loop"
    /\ T.pos <= Len(T.path)
    /\ T.path[T.pos].kind = "ParentDir"
    /\ T.current # NoNode
    /\ upgrade(nodes, nodes[T.current].parent.ref) # NoNode

\* get_parent moves to the parent that is alive.
ParentTaken(t) ==
    LET T == tasks[t] IN
    (T.pc = "get_parent" /\ Moved(t) /\ parent(nodes, T.current) # NoNode)
    => tasks'[t].pc = "loop" /\ tasks'[t].current = parent(nodes, T.current)

\* C28 as stated: a `..` component moves to the parent of the current node
\* whenever that parent exists, whatever the kind of the current node, and
\* produces no error.
C28_ParentOfAnyNode ==
    [][\A t \in Tasks :
          /\ (AtParentDir(tasks[t]) /\ Moved(t)) =>
                 /\ tasks'[t].result.tag # "Err"
                 /\ tasks'[t].pc = "loop" =>
                        tasks'[t].current = upgrade(nodes, nodes[tasks[t].current].parent.ref)
          /\ ParentTaken(t)]_vars

\* C28 amended: a `..` component moves to the parent of the current node
\* whenever the current node is a Directory and its parent exists; when the
\* current node is a File the resolution returns UnexpectedFile, also when
\* the File's parent directory is alive.
C28_ParentOfDirectory ==
    [][\A t \in Tasks :
          /\ (AtParentDir(tasks[t]) /\ Moved(t)) =>
                 IF nodes[tasks[t].current].kind = "Directory"
                 THEN tasks'[t].pc = "get_parent" /\ tasks'[t].result = Pending
                 ELSE /\ tasks'[t].pc = "done"
                      /\ tasks'[t].result = Err("UnexpectedFile")
                      /\ nodes' = nodes
          /\ ParentTaken(t)]_vars

\* C28 witness: a resolution reached a File whose parent directory is alive,
\* had a `..` component next and returned UnexpectedFile.
C28_Witness ==
    \E t \in Tasks :
        LET T == tasks[t]
            r == get_none(nodes, T.start, SubSeq(T.path, 1, T.pos - 1), 1)
        IN  /\ T.pc = "done"
            /\ T.result = Err("UnexpectedFile")
            /\ T.pos \in 2..Len(T.path)
            /\ T.path[T.pos].kind = "ParentDir"
            /\ r.tag = "Some"
            /\ nodes[r.node].kind = "File"
            /\ upgrade(nodes, nodes[r.node].parent.ref) = T.start

\* ------------------------------------------------------------------ C29
\* The (directory, name) a caller has built a node for and not yet inserted.
Building(t) ==
    IF tasks[t].new = NoNode THEN {}
    ELSE {<<tasks[t].current, tasks[t].path[tasks[t].pos - 1].name>>}

\* C29: a caller for whose name another task has inserted a node since its
\* read-locked miss constructs no new node, and at most one node is ever
\* constructed per (directory, name): a node a caller has built is the only
\* one built for its (directory, name).
C29_OneConstruction ==
    \A t \in Tasks : \A b \in Building(t) :
        /\ nodes[b[1]].children[b[2]] = NoNode
        /\ \A u \in Tasks \ {t} : b \notin Building(u)

\* ------------------------------------------------------------------ C30
\* The tasks that hold a lock of directory d: the node's own lock or the lock
\* of its children map.
Holders(d) ==
    node_lock[d] \cup children_lock[d].readers \cup ({children_lock[d].writer} \ {NoTask})

\* C30: from the construction of a new child to its insertion the creating
\* task holds the write lock of the directory, and no other task holds any
\* lock of that directory.
C30_BuiltUnderWriteLock ==
    \A t \in Tasks : \A b \in Building(t) :
        /\ children_lock[b[1]].writer = t
        /\ Holders(b[1]) \subseteq {t}

\* ------------------------------------------------------------------ C31
\* The components of "" and of ".".
NoOpPath(components) == components \in {<<>>, <<Comp("CurDir", "")>>}

\* C31: a `.` component leaves the current node as it is, and resolving "" or
\* "." from directory d returns d under every policy and for either requested
\* kind and creates nothing; get_file and get_file_default return
\* UnexpectedDirectory on such a path.
C31_CurDirNoOp ==
    /\ [](\A t \in Tasks :
             LET T == tasks[t] IN
             (T.pc = "done" /\ NoOpPath(T.path)) =>
                 /\ T.made = {}
                 /\ T.result = IF T.op.narrow = "file"
                                THEN Err("GetFileError::UnexpectedDirectory")
                                ELSE OkSome(T.start))
    /\ [][\A t \in Tasks :
             LET T == tasks[t] IN
             /\ (T.pc = "loop" /\ Moved(t) /\ NoOpPath(T.path)) => nodes' = nodes
             /\ (AtDirectory(T, "CurDir") /\ Moved(t)) =>
                    /\ tasks'[t] = [T EXCEPT !.pos = T.pos + 1]
                    /\ nodes' = nodes]_vars

\* C31 witness: get_file_default(".") on an empty directory, with room for a
\* new node, has returned UnexpectedDirectory.
C31_Witness ==
    \E t \in Tasks :
        LET T == tasks[t] IN
        /\ T.pc = "done"
        /\ T.path = <<Comp("CurDir", "")>>
        /\ T.op.name = "get_file_default"
        /\ T.result = Err("GetFileError::UnexpectedDirectory")
        /\ count(nodes, T.start) = 0
        /\ FreeIds(nodes) # {}

\* ------------------------------------------------------------------ C32
\* The tree a call was made on: the tree without the entries and nodes the
\* call has made.
Unmade(ns, made) ==
    [n \in NodeIds |->
        IF \E m \in made : m.id = n THEN FreeNode
        ELSE [ns[n] EXCEPT !.children =
                 [x \in Names |-> IF \E m \in made : m.dir = n /\ m.name = x
                                  THEN NoNode ELSE ns[n].children[x]]]]

\* The paths of one named segment.
NamedPaths == {<<Comp("Normal", x)>> : x \in Names}

\* The operations as Directory::get is entered for them.
CodeOps == GetOps \ ErrorOps

\* A call returns the result and leaves the tree of Directory::get run on the
\* tree the call was made on.
RunsAsGet ==
    LET T == tasks'[Caller]
        r == get_run(Unmade(nodes', T.made), T.start, T.path, 1, T.op)
    IN  (tasks[Caller].pc \notin {"idle", "done"} /\ T.pc = "done" /\ T.op \in CodeOps) =>
            T.result = Return(T.op, r.res, r.ns) /\ nodes' = r.ns

\* Resolving q from the directory e that p resolves to from d is resolving
\* p/q from d, and for d the root it is resolving /p/q from the root.
Composes ==
    \A d \in NodeIds, p \in NamedPaths, q \in NamedPaths, op \in CodeOps :
        LET e == get_none(nodes, d, p, 1) IN
        (/\ tasks[Caller].pc = "idle"
         /\ nodes[d].kind = "Directory"
         /\ e.tag = "Some"
         /\ nodes[e.node].kind = "Directory"
         /\ FreeIds(nodes) # {})
        => /\ get_run(nodes, e.node, q, 1, op) = get_run(nodes, d, p \o q, 1, op)
           /\ d = RootId =>
                  get_run(nodes, e.node, q, 1, op)
                      = get_run(nodes, d, <<Comp("RootDir", "")>> \o p \o q, 1, op)

\* C32: for relative paths p and q of named segments, if p resolves from d to
\* a directory e, resolving q from e returns the same node and leaves the same
\* tree as resolving p/q from d; the absolute path /p/q from the root reaches
\* the same node as q from the sub-directory e.
C32_Composes == [][RunsAsGet]_vars /\ []Composes

\* C32 witness: a create-on-demand call on a two-segment path p/q has created
\* both segments and has returned the node that resolving q from the
\* directory e returns, e being what p resolves to.
C32_Witness ==
    LET T == tasks[Caller] IN
    /\ Created(T)
    /\ Len(T.path) = 2 /\ NormalOnly(T.path)
    /\ get_none(Unmade(nodes, T.made), T.start, SubSeq(T.path, 1, 1), 1) = OkNone
    /\ Cardinality(T.made) = 2
    /\ get_none(nodes, get_none(nodes, T.start, SubSeq(T.path, 1, 1), 1).node,
                SubSeq(T.path, 2, 2), 1) = T.result

\* ------------------------------------------------------------------ C33
\* The errors a create-on-demand resolution can return.
CreateErrors ==
    {"UnexpectedFile", "UnexpectedOrphan", "UnexpectedPrefix", "UnexpectedRoot",
     "GetDirError::UnexpectedFile", "GetFileError::UnexpectedDirectory"}

\* C33: a create-on-demand resolution never has None as its current node and
\* never returns GetError::Other: it returns a node or one of UnexpectedFile,
\* UnexpectedOrphan, UnexpectedPrefix, UnexpectedRoot or the type mismatch of
\* the typed wrapper.
C33_NeverOther ==
    \A t \in Tasks :
        LET T == tasks[t] IN
        T.op.name \in CreateNames =>
            /\ T.pc \notin {"idle", "done"} => T.current # NoNode
            /\ T.pc = "done" =>
                   \/ T.result.tag = "Some"
                   \/ T.result.tag = "Err" /\ T.result.err \in CreateErrors

\* C33 witness: two create-on-demand calls for the same name of the same
\* directory have returned, one with the node it inserted and the other, which
\* had built a node of its own, with that same node.
C33_Witness ==
    \E t \in Tasks, u \in Tasks :
        /\ t # u
        /\ Created(tasks[t]) /\ Created(tasks[u])
        /\ tasks[t].start = tasks[u].start
        /\ tasks[t].path = tasks[u].path
        /\ Len(tasks[t].path) = 1
        /\ tasks[t].made = {}
        /\ \E m \in tasks[u].made : tasks[t].result = OkSome(m.id)
        /\ \E n \in NodeIds : nodes[n].kind = "Free" /\ n < tasks[t].result.node

\* ------------------------------------------------------------------ C34
\* C34: when get_file_default(n) and get_dir_default(n) have both returned for
\* the same name n of the same directory, one node is the entry of n, the call
\* of that node's kind has returned it, the other call has returned the type
\* mismatch of its wrapper, and at most one of them has inserted a node.
C34_MixedKindRace ==
    \A t \in Tasks, u \in Tasks :
        LET T == tasks[t]
            U == tasks[u]
        IN  (/\ T.pc = "done" /\ U.pc = "done"
             /\ T.op.name = "get_file_default" /\ U.op.name = "get_dir_default"
             /\ T.start = U.start /\ T.path = U.path
             /\ Len(T.path) = 1 /\ NormalOnly(T.path))
            => LET x == nodes[T.start].children[T.path[1].name] IN
               /\ x # NoNode
               /\ Cardinality(T.made \cup U.made) <= 1
               /\ IF nodes[x].kind = "File"
                  THEN T.result = OkSome(x) /\ U.result = Err("GetDirError::UnexpectedFile")
                  ELSE U.result = OkSome(x)
                       /\ T.result = Err("GetFileError::UnexpectedDirectory")

\* C34 witness: get_dir_default built its node first, get_file_default built
\* and inserted its File, and get_dir_default has returned UnexpectedFile.
C34_Witness ==
    \E t \in Tasks, u \in Tasks :
        /\ tasks[t].pc = "done" /\ tasks[u].pc = "done"
        /\ tasks[t].op.name = "get_file_default" /\ tasks[u].op.name = "get_dir_default"
        /\ tasks[t].start = tasks[u].start /\ tasks[t].path = tasks[u].path
        /\ Cardinality(tasks[t].made) = 1
        /\ tasks[u].result = Err("GetDirError::UnexpectedFile")
        /\ \E n \in NodeIds : nodes[n].kind = "Free" /\ n < tasks[t].result.node

\* ------------------------------------------------------------------ C35
\* No entry of a directory that lives on is removed or replaced, and its
\* count() does not decrease.
EntriesKept ==
    \A d \in NodeIds :
        (nodes[d].kind = "Directory" /\ nodes'[d].kind = "Directory") =>
            /\ \A x \in Names :
                   nodes[d].children[x] # NoNode => nodes'[d].children[x] = nodes[d].children[x]
            /\ count(nodes', d) >= count(nodes, d)

\* C35: the tree only grows: once name n maps to node X in directory d it maps
\* to X in every later state of d, count() of a directory never decreases, and
\* a path that resolved to X keeps resolving to X while the tree, that is its
\* root, is alive.
C35_TreeOnlyGrows ==
    [][/\ EntriesKept
       /\ (fs /\ fs') => Preserved(nodes, nodes')]_vars

\* C35 witness: a call has inserted a second entry into the root, whose first
\* entry, made by an earlier call, is still there.
C35_Witness ==
    /\ fs
    /\ tasks[Caller].pc = "done"
    /\ \E m \in tasks[Caller].made : m.dir = RootId
    /\ Cardinality(tasks[Caller].made) = 1
    /\ count(nodes, RootId) = 2

\* ------------------------------------------------------------------ C36
\* The places of node n: the (directory, name) pairs whose entry it is.
Places(n) ==
    {p \in NodeIds \X Names : nodes[p[1]].kind = "Directory" /\ nodes[p[1]].children[p[2]] = n}

\* Following parent() from n reaches the root within k steps.
RECURSIVE Climbs(_, _)
Climbs(n, k) ==
    IF n = RootId THEN TRUE
    ELSE IF k = 0 THEN FALSE
    ELSE LET up == upgrade(nodes, nodes[n].parent.ref)
         IN  up # NoNode /\ Climbs(up, k - 1)

\* The root created by FileSystem::new exists.
RootAlive == nodes[RootId].kind = "Directory" /\ nodes[RootId].parent = NoParent

\* C36: while the root exists, the nodes reachable from it form a tree: every
\* node other than the root is the entry of exactly one name of exactly one
\* children map, no File has children, and following parent() from a reachable
\* node reaches the root without a cycle.
C36_Tree ==
    RootAlive => \A n \in Reach(nodes, {RootId}) :
              /\ nodes[n].kind \in {"Directory", "File"}
              /\ n # RootId => Cardinality(Places(n)) = 1
              /\ n = RootId => Places(n) = {}
              /\ nodes[n].kind = "File" => nodes[n].children = EmptyChildren
              /\ Climbs(n, MaxNodes - 1)

\* C36 witness: a caller has returned a node that lies two steps below the
\* root.
C36_Witness ==
    /\ RootAlive
    /\ \E n \in Reach(nodes, {RootId}) :
          /\ nodes[n].parent.ref \notin {NoNode, RootId}
          /\ Climbs(n, 2)
          /\ \E t \in Tasks : tasks[t].pc = "done" /\ tasks[t].result = OkSome(n)

\* ------------------------------------------------------------------ C37
\* The ancestor, or the node itself, at which following parent() from n stops:
\* the first node without a live parent.
RECURSIVE Top(_)
Top(n) == IF parent(nodes, n) = NoNode THEN n ELSE Top(parent(nodes, n))

\* The number of parent() steps from n to Top(n).
RECURSIVE Height(_)
Height(n) == IF parent(nodes, n) = NoNode THEN 0 ELSE 1 + Height(parent(nodes, n))

\* What a path() call under way is going to return.
PathOf(q, ns) == IF q.pc = "returned" THEN q.seen ELSE path(ns, q.node) \o q.seen

\* path() names the live ancestors only: "/" and then the names that lead from
\* Top(n) down to n, without the name of Top(n) itself (a node being built is
\* not yet an entry of its parent and cannot be reached from above).
LivePath(n) ==
    /\ path(nodes, n)[1] = Comp("RootDir", "")
    /\ Len(path(nodes, n)) = 1 + Height(n)
    /\ (parent(nodes, n) = NoNode \/ Places(n) # {}) =>
           get_none(nodes, Top(n), Tail(path(nodes, n)), 1) = OkSome(n)
    /\ parent(nodes, n) = NoNode => path(nodes, n) = <<Comp("RootDir", "")>>
    /\ RootAlive => path(nodes, RootId) = <<Comp("RootDir", "")>>

\* C37: Located::path follows the chain of live ancestors only: the names at
\* and above the first node whose parent is gone are left out, so that a
\* non-root node whose parent was destroyed reports "/" as the root does; a
\* path() call returns that value.
C37_PathOfOrphan ==
    /\ [](\A n \in NodeIds : Alive(n) => LivePath(n))
    /\ [][\A t \in Tasks :
             /\ (queries[t].pc = "idle" /\ queries'[t].kind = "path") =>
                    PathOf(queries'[t], nodes') = path(nodes, queries'[t].node)
             /\ (queries[t].kind = "path" /\ queries'[t].kind = "path") =>
                    PathOf(queries'[t], nodes') = PathOf(queries[t], nodes)]_vars

\* C37 witness: after the drop of the FileSystem a path() call on a directory
\* b, whose parent a is held and has lost its own parent, has returned "/b",
\* and a itself reports "/".
C37_Witness ==
    \E n \in NodeIds :
        /\ Alive(n)
        /\ Height(n) = 1
        /\ nodes[Top(n)].parent # NoParent
        /\ path(nodes, Top(n)) = <<Comp("RootDir", "")>>
        /\ queries[Caller].pc = "returned"
        /\ queries[Caller].kind = "path"
        /\ queries[Caller].seen = path(nodes, n)

\* ------------------------------------------------------------------ C38
\* Node n exists before and after the step.
Stays(n) == Alive(n) /\ nodes'[n].kind \in {"Directory", "File"}

\* The step leaves of node n everything but its children map and its payload.
EdgeKept(n) ==
    /\ nodes'[n].kind = nodes[n].kind
    /\ nodes'[n].parent = nodes[n].parent
    /\ name(nodes', n) = name(nodes, n)
    /\ nodes'[n] = [nodes[n] EXCEPT !.children = nodes'[n].children,
                                    !.value = nodes'[n].value]

\* C38: the name and the parent edge of a node are fixed at construction: no
\* step changes them for a node that exists before and after it, and the
\* node's own lock is only ever held by readers; children maps and payload
\* cells are all that changes.
C38_EdgeFixed ==
    /\ [][\A n \in NodeIds : Stays(n) => EdgeKept(n)]_vars
    /\ [](\A n \in NodeIds : node_lock[n] \subseteq Tasks)

\* C38 witness: a directory made below the root has been given a new payload
\* after its creation, the root's children map has grown by it, and it is
\* still the entry its parent edge names.
C38_Witness ==
    \E n \in NodeIds \ {RootId} :
        /\ Alive(n)
        /\ writes[n] # <<>>
        /\ nodes[n].value # 0
        /\ nodes[n].parent.ref = RootId
        /\ Places(n) = {<<RootId, nodes[n].parent.name>>}
====
